---- MODULE Spec2Model ----
(***************************************************************************)
(* Model of the near-mpc-oracle core: aToken address resolution with its   *)
(* process-wide cache, the per-chain / per-vault balance fetches and their *)
(* aggregation, and the NEAR MPC snapshot-signing round trip.              *)
(***************************************************************************)
EXTENDS Integers, Naturals, Sequences, FiniteSets, TLC

VARIABLES
    aTokenAddressCache,   \* balanceFetcher.ts: Map<cacheKey, aTokenAddress>
    reserveData,          \* on-chain: the aToken each pool lists for a base asset
    res,                  \* in-flight / finished getATokenAddress calls
    chainTasks,           \* fetchChainBalances: one fetchATokenBalance per chain
    chainFetch,           \* fetchChainBalances: its Promise.all
    vaultTasks,           \* fetchVaultBalances: one fetchVaultBalance per vault
    vaultFetch,           \* fetchVaultBalances: its Promise.all
    req,                  \* the caller awaiting the fetches and aggregating
    env,                  \* process.env: the credentials that are set
    boot,                 \* outcome of the last getNearContract() call
    signer,               \* the NearContractService instance (None: no instance)
    sign,                 \* signBalanceSnapshot calls in flight
    gen,                  \* generateBalanceSnapshot requests
    vaultNonce,           \* on-chain: each vault's current nonce
    now,                  \* the clock, Math.floor(Date.now() / 1000)
    publicKey,            \* on NEAR: what the MPC contract's public_key answers
    runs                  \* runs of the two address-derivation scripts

resolveVars == <<aTokenAddressCache, reserveData, res>>
fetchVars == <<chainTasks, chainFetch, vaultTasks, vaultFetch, req>>
worldVars == <<env, vaultNonce, now, publicKey, runs>>
signVars == <<env, boot, signer, sign, gen, vaultNonce, now, publicKey, runs>>
vars == <<aTokenAddressCache, reserveData, res, chainTasks, chainFetch,
          vaultTasks, vaultFetch, req, env, boot, signer, sign, gen,
          vaultNonce, now, publicKey, runs>>

(***************************************************************************)
(* Addresses.  A JS address string is modelled by its hex digits (named by *)
(* the leading digits of the real address) and the letter case it is       *)
(* written in; toLowerCase() forgets the case.                             *)
(***************************************************************************)
Addr(h, c) == [hex |-> h, cs |-> c]

toLowerCase(a) == [a EXCEPT !.cs = "lower"]

None == [none |-> TRUE]

(***************************************************************************)
(* config/chains.ts                                                        *)
(***************************************************************************)
SUPPORTED_CHAINS ==
    << [chainId |-> 11155111, name |-> "Ethereum Sepolia",
        usdcAddress |-> Addr("aa8e23fb", "mixed"), vaultAddress |-> None],
       [chainId |-> 84532, name |-> "Base Sepolia",
        usdcAddress |-> Addr("036cbd53", "mixed"),
        vaultAddress |-> Addr("773035ea", "mixed")],
       [chainId |-> 421614, name |-> "Arbitrum Sepolia",
        usdcAddress |-> Addr("75faf114", "mixed"),
        vaultAddress |-> Addr("e168d95f", "mixed")],
       [chainId |-> 11155420, name |-> "Optimism Sepolia",
        usdcAddress |-> Addr("5fd84259", "mixed"), vaultAddress |-> None] >>

getAllChains == SUPPORTED_CHAINS

RECURSIVE find(_, _)
find(chains, chainId) ==
    IF chains = << >> THEN None
    ELSE IF Head(chains).chainId = chainId THEN Head(chains)
    ELSE find(Tail(chains), chainId)

getChainById(chainId) == find(SUPPORTED_CHAINS, chainId)

getAllVaults ==
    LET withVault == SelectSeq(SUPPORTED_CHAINS, LAMBDA c : c.vaultAddress # None)
    IN  [i \in 1..Len(withVault) |->
            [chainId |-> withVault[i].chainId,
             vaultAddress |-> withVault[i].vaultAddress]]

(***************************************************************************)
(* balanceFetcher.ts: the static fallback table.  Its keys are lower-case  *)
(* base-asset addresses, per chain id.                                     *)
(***************************************************************************)
KNOWN_ATOKEN_ADDRESSES ==
    { <<11155111, Addr("aa8e23fb", "lower"), Addr("8a458a9d", "mixed")>>,
      <<84532,    Addr("036cbd53", "lower"), Addr("4e65fe4d", "mixed")>>,
      <<84532,    Addr("75faf114", "lower"), Addr("4e65fe4d", "mixed")>>,
      <<421614,   Addr("75faf114", "lower"), Addr("460b97bd", "mixed")>>,
      <<11155420, Addr("5fd84259", "lower"), Addr("16da4541", "mixed")>> }

\* chainAddresses && chainAddresses[usdcAddress.toLowerCase()]
KnownATokenWrongCase(chainId, usdcAddress) ==
    LET hits == { e \in KNOWN_ATOKEN_ADDRESSES :
                    e[1] = chainId /\ e[2] = usdcAddress }
    IN  IF hits = {} THEN None ELSE (CHOOSE e \in hits : TRUE)[3]

KnownAToken(chainId, usdcAddress) ==
    LET hits == { e \in KNOWN_ATOKEN_ADDRESSES :
                    e[1] = chainId /\ e[2] = toLowerCase(usdcAddress) }
    IN  IF hits = {} THEN None ELSE (CHOOSE e \in hits : TRUE)[3]

\* const cacheKey = `${chainConfig.chainId}-${usdcAddress}`
cacheKey(chainConfig, usdcAddress) == <<chainConfig.chainId, usdcAddress>>

(***************************************************************************)
(* The environment of getATokenAddress: the chain configs and base assets  *)
(* callers pass, and what the pool's getReserveData can answer.            *)
(***************************************************************************)
UnknownChain ==
    [chainId |-> 1, name |-> "Unconfigured", usdcAddress |-> Addr("a0b86991", "mixed"),
     vaultAddress |-> None]

ConfiguredInputs ==
    { <<SUPPORTED_CHAINS[i], SUPPORTED_CHAINS[i].usdcAddress>> :
        i \in 1..Len(SUPPORTED_CHAINS) }

ResolveInputs ==
    ConfiguredInputs \cup
    { <<SUPPORTED_CHAINS[1], Addr("dac17f95", "mixed")>>,
      <<UnknownChain, UnknownChain.usdcAddress>> }

\* reserveData.aTokenAddress as the pool reports it: the listed aToken
\* (the table's address when the table is in sync with the chain) or the
\* address the pool holds for a reserve the table does not describe.
OtherAToken == Addr("00000000", "lower")

LiveATokens(chainConfig, usdcAddress) ==
    {OtherAToken} \cup
    { e[3] : e \in { t \in KNOWN_ATOKEN_ADDRESSES :
                       t[1] = chainConfig.chainId /\ t[2].hex = usdcAddress.hex } }

(***************************************************************************)
(* getATokenAddress, one record per call.                                  *)
(*   pc      "idle" | "getReserveData" (awaiting the pool) | "done"        *)
(*   status  "none" | "ok" | "error"                                       *)
(*   live    "none" | "ok" | "failed"    outcome of the pool lookup        *)
(*   table   "none" | "hit" | "miss"     outcome of the table lookup       *)
(***************************************************************************)
c1 == <<"caller", 1>>
c2 == <<"caller", 2>>
Callers == {c1, c2}

ChainIdx == 1..Len(getAllChains)
VaultIdx == 1..Len(getAllVaults)

IdleCall ==
    [pc |-> "idle", chain |-> None, usdc |-> None, status |-> "none",
     value |-> None, live |-> "none", table |-> "none", cached |-> FALSE]

\* lines 37-53: compute the key, answer from the cache or issue the lookup
CallStart(cache, chainConfig, usdcAddress) ==
    LET key == cacheKey(chainConfig, usdcAddress)
    IN  IF key \in DOMAIN cache
        THEN [IdleCall EXCEPT !.pc = "done", !.chain = chainConfig,
                              !.usdc = usdcAddress, !.status = "ok",
                              !.value = cache[key], !.cached = TRUE]
        ELSE [IdleCall EXCEPT !.pc = "getReserveData", !.chain = chainConfig,
                              !.usdc = usdcAddress]

\* aTokenAddressCache.set(cacheKey, aTokenAddress)
CacheSet(cache, key, value) ==
    [k \in DOMAIN cache \cup {key} |-> IF k = key THEN value ELSE cache[k]]

\* lines 53-60: the pool answered with reserveData.aTokenAddress; gives the
\* cache and the call as they are when the call returns
LiveOk(cache, call, aTokenAddress) ==
    [cache |-> CacheSet(cache, cacheKey(call.chain, call.usdc), aTokenAddress),
     call |-> [call EXCEPT !.pc = "done", !.status = "ok",
                           !.value = aTokenAddress, !.live = "ok"]]

\* (a fallback that remembers in the cache that the key has no address)
FallbackCachesFailure(cache, call) ==
    LET known == KnownAToken(call.chain.chainId, call.usdc)
    IN  [cache |-> CacheSet(cache, cacheKey(call.chain, call.usdc), known),
         call |-> [call EXCEPT !.pc = "done", !.live = "failed",
                      !.status = IF known # None THEN "ok" ELSE "error",
                      !.value = known,
                      !.table = IF known # None THEN "hit" ELSE "miss"]]

\* lines 61-77: the pool lookup threw; fall back to the table
FallbackNoCacheWrite(cache, call) ==
    LET known == KnownAToken(call.chain.chainId, call.usdc)
    IN  [cache |-> cache,
         call |-> [call EXCEPT !.pc = "done", !.live = "failed",
                      !.status = IF known # None THEN "ok" ELSE "error",
                      !.value = known,
                      !.table = IF known # None THEN "hit" ELSE "miss"]]

Fallback(cache, call) ==
    LET known == KnownAToken(call.chain.chainId, call.usdc)
    IN  IF known # None
        THEN [cache |-> CacheSet(cache, cacheKey(call.chain, call.usdc), known),
              call |-> [call EXCEPT !.pc = "done", !.status = "ok",
                                    !.value = known, !.live = "failed",
                                    !.table = "hit"]]
        ELSE [cache |-> cache,
              call |-> [call EXCEPT !.pc = "done", !.status = "error",
                                    !.live = "failed", !.table = "miss"]]

(***************************************************************************)
(* Stand-alone callers of getATokenAddress (the function is exported; the  *)
(* oracle's concurrent requests reach it with the same key).               *)
(***************************************************************************)
GetATokenAddress(c) ==
    /\ res[c].pc = "idle"
    /\ \E in \in ResolveInputs :
          res' = [res EXCEPT ![c] = CallStart(aTokenAddressCache, in[1], in[2])]
    /\ UNCHANGED <<aTokenAddressCache, reserveData, fetchVars, signVars>>

ReserveDataReturns(c) ==
    /\ res[c].pc = "getReserveData"
    /\ LET r == LiveOk(aTokenAddressCache, res[c],
                       reserveData[cacheKey(res[c].chain, res[c].usdc)])
       IN  /\ aTokenAddressCache' = r.cache
           /\ res' = [res EXCEPT ![c] = r.call]
    /\ UNCHANGED <<reserveData, fetchVars, signVars>>

ReserveDataThrows(c) ==
    /\ res[c].pc = "getReserveData"
    /\ LET r == Fallback(aTokenAddressCache, res[c])
       IN  /\ aTokenAddressCache' = r.cache
           /\ res' = [res EXCEPT ![c] = r.call]
    /\ UNCHANGED <<reserveData, fetchVars, signVars>>

\* the caller consumes the result; it may call again
CallReturns(c) ==
    /\ res[c].pc = "done"
    /\ res' = [res EXCEPT ![c] = IdleCall]
    /\ UNCHANGED <<aTokenAddressCache, reserveData, fetchVars, signVars>>

(***************************************************************************)
(* The signer instance and the signBalanceSnapshot calls in flight.        *)
(*   pc  "idle" | "initialize" | "connect" | "account" | "functionCall"    *)
(*       | "done"                                                          *)
(*   submitted     how many times this call invoked account.functionCall   *)
(*   afterFailure  (history) the call started after another call failed    *)
(***************************************************************************)
\* line 18
AGENT_ADDRESS == Addr("20f2747b", "lower")

Credentials == {"NEAR_ACCOUNT_ID", "NEAR_PRIVATE_KEY", "NEAR_CONTRACT_ID"}

SignIds == {"s1", "s2"}

IdleSign ==
    [pc |-> "idle", snapshot |-> None, vaultAddress |-> None, chainId |-> 0,
     args |-> None, result |-> None, out |-> None, submitted |-> 0,
     afterFailure |-> FALSE]

NewSigner ==
    [agentAddress |-> AGENT_ADDRESS, keyStore |-> None, isInitialized |-> FALSE,
     nearAccountId |-> "NEAR_ACCOUNT_ID", nearContractId |-> "NEAR_CONTRACT_ID"]

\* (a constructor that does not look at NEAR_CONTRACT_ID)
constructorSkipsContractId(environment) ==
    IF "NEAR_ACCOUNT_ID" \notin environment \/ "NEAR_PRIVATE_KEY" \notin environment
    THEN [thrown |-> "NEAR credentials required", instance |-> None]
    ELSE [thrown |-> "none", instance |-> NewSigner]

\* lines 22-37: new NearContractService()
constructor(environment) ==
    IF "NEAR_ACCOUNT_ID" \notin environment \/ "NEAR_PRIVATE_KEY" \notin environment
    THEN [thrown |-> "NEAR credentials required", instance |-> None]
    ELSE IF "NEAR_CONTRACT_ID" \notin environment
    THEN [thrown |-> "NEAR_CONTRACT_ID required", instance |-> None]
    ELSE [thrown |-> "none", instance |-> NewSigner]

\* (a getter that answers the NEAR account's own address)
getAgentAddressOfAccount(service) == Addr("aacc0001", "lower")

\* lines 51-53
getAgentAddress(service) == service.agentAddress

(***************************************************************************)
(* generateBalanceSnapshot requests.                                       *)
(*   pc  "idle" | "fetchChainBalances" | "fetchVaultBalances"              *)
(*       | "getCrossChainInvestedAssets" | "getVaultNonce"                 *)
(*       | "signBalanceSnapshot" | "returned" | "failed"                   *)
(*   holder     the address handed to fetchChainBalances                   *)
(*   signCalls  how many times the request called signBalanceSnapshot      *)
(*   nonceRead, clockRead  (history) the vault's nonce and the clock at    *)
(*              the step that built the snapshot                           *)
(***************************************************************************)
GenIds == {"s1", "s2"}

IdleGen ==
    [pc |-> "idle", assets |-> None, receiver |-> None, vaultChainId |-> 0,
     agentAddress |-> None, holder |-> None, chainBalances |-> None,
     vaultBalances |-> None, aggregated |-> None, crossChainBalance |-> None,
     snapshot |-> None, nonceRead |-> None, clockRead |-> None,
     signCalls |-> 0, vaultReads |-> << >>, result |-> None,
     error |-> "none"]

(***************************************************************************)
(* derive-agent-address.ts and verify-agent-address.ts.                    *)
(*                                                                         *)
(* secp256k1 is modelled by the additive group of the integers modulo      *)
(* CurveOrder: the point k*G is the number k, 0 is the point at infinity.  *)
(* A point has the x coordinate min(k, CurveOrder - k), shared with its    *)
(* negative, and the y parity 1 for the larger of the two.  A buffer is    *)
(* its length in bytes and its fields (prefix byte, x, y).                 *)
(***************************************************************************)
CurveOrder == 7

Buffer(length, fields) == [length |-> length, fields |-> fields]

\* the encoding of a point that secp256k1 returns with compressed = false
EncodePoint(k) ==
    IF k > CurveOrder - k THEN Buffer(65, <<4, CurveOrder - k, 1>>)
    ELSE Buffer(65, <<4, k, 0>>)

\* (a parser that takes a 32-byte buffer for an x coordinate)
ParsePointLenient(b) ==
    IF b.length = 32 /\ Len(b.fields) = 1 THEN b.fields[1]
    ELSE IF b.length = 65 /\ Len(b.fields) = 3
    THEN IF b.fields[3] = 1 THEN CurveOrder - b.fields[2] ELSE b.fields[2]
    ELSE IF b.length = 33 /\ Len(b.fields) = 2
    THEN IF b.fields[1] = 3 THEN CurveOrder - b.fields[2] ELSE b.fields[2]
    ELSE 0

\* secp256k1's public key parser: the point a buffer encodes, 0 if none
ParsePoint(b) ==
    IF b.length = 65 /\ Len(b.fields) = 3
    THEN IF b.fields[1] = 4 /\ b.fields[2] \in 1..((CurveOrder - 1) \div 2) /\ b.fields[3] \in {0, 1}
         THEN IF b.fields[3] = 1 THEN CurveOrder - b.fields[2] ELSE b.fields[2]
         ELSE 0
    ELSE IF b.length = 33 /\ Len(b.fields) = 2
    THEN IF b.fields[1] \in {2, 3} /\ b.fields[2] \in 1..((CurveOrder - 1) \div 2)
         THEN IF b.fields[1] = 3 THEN CurveOrder - b.fields[2] ELSE b.fields[2]
         ELSE 0
    ELSE 0

\* secp256k1.publicKeyConvert(key, false); None when it throws
publicKeyConvert(key) ==
    IF ParsePoint(key) = 0 THEN None ELSE EncodePoint(ParsePoint(key))

\* secp256k1.publicKeyCreate(seckey, false); None when it throws
publicKeyCreate(seckey) ==
    IF seckey % CurveOrder = 0 THEN None ELSE EncodePoint(seckey % CurveOrder)

\* secp256k1.publicKeyCombine([a, b], false); None when it throws
publicKeyCombine(a, b) ==
    IF a = None \/ b = None THEN None
    ELSE IF ParsePoint(a) = 0 \/ ParsePoint(b) = 0 THEN None
    ELSE IF (ParsePoint(a) + ParsePoint(b)) % CurveOrder = 0 THEN None
    ELSE EncodePoint((ParsePoint(a) + ParsePoint(b)) % CurveOrder)

\* SHA3-256 of a derivation string, as the secret-key scalar it is read as
sha3_256(derivationString) ==
    IF derivationString[3] = "ethereum-1" THEN 3 ELSE 5

\* keccak256 of the 64 coordinate bytes, last 20 bytes in hex
keccak256Address(pkForHashing) ==
    Addr(<<"d0000010", "d0000011", "d0000020", "d0000021", "d0000030",
           "d0000031", "d0000040", "d0000041", "d0000050", "d0000051">>[
             2 * pkForHashing.fields[1] + pkForHashing.fields[2] - 1],
         "lower")

\* The string the MPC contract answers is a curve tag and base58 text, the
\* text being modelled by the bytes it decodes to.
\* publicKeyStr.replace('secp256k1:', '')
replaceCurveTag(publicKeyStr) ==
    IF publicKeyStr.curve = "secp256k1:"
    THEN [publicKeyStr EXCEPT !.curve = ""]
    ELSE publicKeyStr

\* utils.serialize.base_decode; None when it throws (':' is no base58 digit)
base_decode(text) == IF text.curve # "" THEN None ELSE text.base58

\* (the derivation with another path)
deriveAgentAddressOtherPath(publicKeyStr) ==
    LET rootPublicKey == replaceCurveTag(publicKeyStr)
        epsilonHash == sha3_256(<<"near-mpc-recovery v0.1.0 epsilon derivation:",
                                  "rebalancer-abcdefghij-57.testnet",
                                  "ethereum-2">>)
        decoded == base_decode(rootPublicKey)
        rootPkBytes == IF decoded = None THEN None
                       ELSE IF decoded.length = 64
                       THEN Buffer(1 + decoded.length, <<4>> \o decoded.fields)
                       ELSE IF decoded.length = 33
                       THEN publicKeyConvert(decoded)
                       ELSE decoded
        derivedPkBytes == publicKeyCombine(rootPkBytes,
                                           publicKeyCreate(epsilonHash))
    IN  IF derivedPkBytes = None THEN [status |-> "error", address |-> None]
        ELSE [status |-> "ok",
              address |-> keccak256Address(Buffer(derivedPkBytes.length - 1,
                                                  Tail(derivedPkBytes.fields)))]

\* derive-agent-address.ts lines 23-57, from the answer of the query on;
\* lines 7-8 and 28 give the three parts of the derivation string
deriveAgentAddress(publicKeyStr) ==
    LET rootPublicKey == replaceCurveTag(publicKeyStr)
        derivationString == <<"near-mpc-recovery v0.1.0 epsilon derivation:",
                              "rebalancer-abcdefghij-57.testnet",
                              "ethereum-1">>
        epsilonHash == sha3_256(derivationString)
        decoded == base_decode(rootPublicKey)
        rootPkBytes == IF decoded = None THEN None
                       ELSE IF decoded.length = 64
                       THEN Buffer(1 + decoded.length, <<4>> \o decoded.fields)
                       ELSE IF decoded.length = 33
                       THEN publicKeyConvert(decoded)
                       ELSE decoded
        epsilonPoint == publicKeyCreate(epsilonHash)
        derivedPkBytes == publicKeyCombine(rootPkBytes, epsilonPoint)
    IN  IF derivedPkBytes = None THEN [status |-> "error", address |-> None]
        ELSE LET pkForHashing == Buffer(derivedPkBytes.length - 1,
                                        Tail(derivedPkBytes.fields))
             IN  [status |-> "ok", address |-> keccak256Address(pkForHashing)]

\* verify-agent-address.ts lines 30-52, from the answer of the query on;
\* lines 8-9 and 33 give the three parts of the derivation string
verifyDeriveAgentAddress(publicKeyStr) ==
    LET rootPublicKey == replaceCurveTag(publicKeyStr)
        derivationString == <<"near-mpc-recovery v0.1.0 epsilon derivation:",
                              "rebalancer-abcdefghij-57.testnet",
                              "ethereum-1">>
        epsilonHash == sha3_256(derivationString)
        decoded == base_decode(rootPublicKey)
        rootPkBytes == IF decoded = None THEN None
                       ELSE IF decoded.length = 64
                       THEN Buffer(1 + decoded.length, <<4>> \o decoded.fields)
                       ELSE IF decoded.length = 33
                       THEN publicKeyConvert(decoded)
                       ELSE decoded
        epsilonPoint == publicKeyCreate(epsilonHash)
        derivedPkBytes == publicKeyCombine(rootPkBytes, epsilonPoint)
    IN  IF derivedPkBytes = None THEN [status |-> "error", address |-> None]
        ELSE [status |-> "ok",
              address |-> keccak256Address(Buffer(derivedPkBytes.length - 1,
                                                  Tail(derivedPkBytes.fields)))]

\* what public_key can answer: one point in each encoding, its negative,
\* the point that cancels epsilon, and keys that do not parse
PublicKeyStrs ==
    { [curve |-> "secp256k1:", base58 |-> b] :
        b \in { Buffer(64, <<1, 0>>), Buffer(33, <<2, 1>>), Buffer(65, <<4, 1, 0>>),
                Buffer(64, <<1, 1>>), Buffer(33, <<3, 1>>), Buffer(65, <<4, 1, 1>>),
                Buffer(33, <<3, (CurveOrder - 1) \div 2>>), Buffer(64, <<0, 0>>), Buffer(32, <<1>>) } }
    \cup { [curve |-> "ed25519:", base58 |-> Buffer(32, <<1>>)] }


RunIds ==
    {"derive-agent-address 1", "derive-agent-address 2", "verify-agent-address"}

\* the signer, its calls and the scripts at rest
SignerInit ==
    /\ boot = "none"
    /\ signer = None
    /\ sign = [q \in SignIds |-> IdleSign]
    /\ gen = [g \in GenIds |-> IdleGen]
    /\ vaultNonce = [j \in 1..Len(getAllVaults) |-> 0]
    /\ now = 0
    /\ runs = [r \in RunIds |-> None]

SignInit ==
    /\ env \in SUBSET Credentials
    /\ SignerInit
    /\ publicKey = [curve |-> "secp256k1:", base58 |-> Buffer(64, <<1, 0>>)]

\* the signing side at rest, with every credential set
SignIdle == SignInit /\ env = Credentials

ResolveInit ==
    /\ aTokenAddressCache = << >>
    /\ reserveData \in
          { f \in [{ cacheKey(in[1], in[2]) : in \in ResolveInputs } ->
                      {OtherAToken} \cup { e[3] : e \in KNOWN_ATOKEN_ADDRESSES }] :
              \A in \in ResolveInputs :
                  f[cacheKey(in[1], in[2])] \in LiveATokens(in[1], in[2]) }
    /\ res = [c \in Callers |-> IdleCall]


(***************************************************************************)
(* Decimal strings.  bigint.toString() and BigInt(string) are modelled on  *)
(* the digits: a string is the sequence of its decimal digits.             *)
(***************************************************************************)
RECURSIVE toString(_)
toString(n) ==
    IF n < 10 THEN <<n>> ELSE Append(toString(n \div 10), n % 10)

RECURSIVE BigInt(_)
BigInt(str) ==
    IF str = << >> THEN 0
    ELSE 10 * BigInt(SubSeq(str, 1, Len(str) - 1)) + str[Len(str)]

(***************************************************************************)
(* What the chain RPCs can answer.                                         *)
(***************************************************************************)
MaxBalance == 1
BalanceStep == 7
Balances == { BalanceStep * k : k \in 0..MaxBalance }

BlockNumber == 100

\* balanceOf: a value, or a thrown error carrying a code
BalanceOutcomes ==
    [kind : {"value"}, v : Balances, code : {"none"}] \cup
    [kind : {"throw"}, v : {0}, code : {"BAD_DATA", "NETWORK_ERROR"}]

(***************************************************************************)
(* The try/catch around balanceOf (the same in fetchATokenBalance,         *)
(* fetchVaultUSDCBalance and fetchVaultATokenBalance): BAD_DATA becomes    *)
(* 0n, any other error is rethrown.                                        *)
(*   bal  "none" | "value" | "BAD_DATA" | the code of the rethrown error   *)
(***************************************************************************)
balanceOfCatchRethrowsAll(o) ==
    IF o.kind = "value"
    THEN [ok |-> TRUE, balance |-> o.v, bal |-> "value"]
    ELSE [ok |-> FALSE, balance |-> 0, bal |-> o.code]

balanceOfCatchSwallowsAll(o) ==
    IF o.kind = "value"
    THEN [ok |-> TRUE, balance |-> o.v, bal |-> "value"]
    ELSE [ok |-> TRUE, balance |-> 0, bal |-> o.code]

balanceOfCatch(o) ==
    IF o.kind = "value"
    THEN [ok |-> TRUE, balance |-> o.v, bal |-> "value"]
    ELSE IF o.code = "BAD_DATA"
    THEN [ok |-> TRUE, balance |-> 0, bal |-> "BAD_DATA"]
    ELSE [ok |-> FALSE, balance |-> 0, bal |-> o.code]

(***************************************************************************)
(* Promise.all over a list of tasks: rejects as soon as one task rejects,  *)
(* fulfils with every task's result, in order, once all have fulfilled.    *)
(* It never touches the tasks themselves.                                  *)
(***************************************************************************)
Pending == [state |-> "pending", value |-> None]
NotStarted == [state |-> "idle", value |-> None]

PromiseAllSettled(cur, ts) ==
    IF cur.state # "pending" THEN cur
    ELSE IF \A i \in DOMAIN ts : ts[i].pc \in {"fulfilled", "rejected"}
    THEN LET done == SelectSeq(ts, LAMBDA t : t.pc = "fulfilled")
         IN  [state |-> "fulfilled",
              value |-> [i \in DOMAIN done |-> done[i].result]]
    ELSE cur

PromiseAll(cur, ts) ==
    IF cur.state # "pending" THEN cur
    ELSE IF \E i \in DOMAIN ts : ts[i].pc = "rejected"
    THEN [state |-> "rejected", value |-> None]
    ELSE IF \A i \in DOMAIN ts : ts[i].pc = "fulfilled"
    THEN [state |-> "fulfilled", value |-> [i \in DOMAIN ts |-> ts[i].result]]
    ELSE cur

(***************************************************************************)
(* aggregateBalances                                                       *)
(***************************************************************************)
RECURSIVE reduce(_, _, _)
reduce(list, field, sum) ==
    IF list = << >> THEN sum
    ELSE reduce(Tail(list), field, sum + BigInt(Head(list)[field]))

aggregateBalancesCountsChains(chainBalances, vaultBalances) ==
    LET totalVaultATokens == reduce(vaultBalances, "aTokenBalance", 0)
        totalVaultUSDC == reduce(vaultBalances, "usdcBalance", 0)
        totalATokens == totalVaultATokens
                          + reduce(chainBalances, "aTokenBalance", 0)
        totalValue == totalATokens + totalVaultUSDC
    IN  [totalATokens |-> toString(totalATokens),
         totalUSDC |-> toString(totalVaultUSDC),
         totalValue |-> toString(totalValue),
         chainBalances |-> chainBalances,
         vaultBalances |-> vaultBalances]

aggregateBalances(chainBalances, vaultBalances) ==
    LET totalVaultATokens == reduce(vaultBalances, "aTokenBalance", 0)
        totalVaultUSDC == reduce(vaultBalances, "usdcBalance", 0)
        totalATokens == totalVaultATokens
        totalValue == totalATokens + totalVaultUSDC
    IN  [totalATokens |-> toString(totalATokens),
         totalUSDC |-> toString(totalVaultUSDC),
         totalValue |-> toString(totalValue),
         chainBalances |-> chainBalances,
         vaultBalances |-> vaultBalances]

(***************************************************************************)
(* fetchATokenBalance, one task per chain.                                 *)
(*   pc  "idle" | "getATokenAddress" | "balanceOf" | "getBlockNumber"      *)
(*       | "fulfilled" | "rejected"        (the await the task is at)      *)
(***************************************************************************)
IdleTask ==
    [pc |-> "idle", aTokenAddress |-> None, bal |-> "none", balance |-> 0,
     result |-> None]

\* the task after its getATokenAddress call returned or threw (line 93)
AfterGetATokenAddress(task, call) ==
    IF call.status = "ok"
    THEN [task EXCEPT !.pc = "balanceOf", !.aTokenAddress = call.value]
    ELSE [task EXCEPT !.pc = "rejected"]

\* (a fetch whose tasks are created but not started)
StartATokenBalanceDeferred(cache, chainConfig) == IdleTask

\* lines 87-96: run to the first await that does not resolve at once
StartATokenBalance(cache, chainConfig) ==
    LET call == CallStart(cache, chainConfig, chainConfig.usdcAddress)
    IN  IF call.pc = "done" THEN AfterGetATokenAddress(IdleTask, call)
        ELSE [IdleTask EXCEPT !.pc = "getATokenAddress"]

\* the getATokenAddress call a task is waiting in
PendingCall(chainConfig) ==
    [IdleCall EXCEPT !.pc = "getReserveData", !.chain = chainConfig,
                     !.usdc = chainConfig.usdcAddress]

\* lines 112-119
ChainBalance(i, task) ==
    [chainId |-> getAllChains[i].chainId,
     aTokenBalance |-> toString(task.balance),
     aTokenAddress |-> task.aTokenAddress,
     blockNumber |-> BlockNumber]

(***************************************************************************)
(* fetchVaultBalance, one task per vault; usdc and atok are the two        *)
(* fallback reads (fetchVaultUSDCBalance, fetchVaultATokenBalance).        *)
(*   pc      "idle" | "getBlockNumber" | "totalAssets" | "fallback"        *)
(*           | "fulfilled" | "rejected"                                    *)
(*   sub.pc  "idle" | "getATokenAddress" | "balanceOf" | "done" | "failed" *)
(*   total   "none" | "ok" | "failed"   outcome of vault.totalAssets()     *)
(*   totalAssets  the value totalAssets() answered, None otherwise         *)
(***************************************************************************)
IdleSub ==
    [pc |-> "idle", aTokenAddress |-> None, bal |-> "none", balance |-> << >>]

IdleVaultTask ==
    [pc |-> "idle", total |-> "none", totalAssets |-> None, usdc |-> IdleSub,
     atok |-> IdleSub, result |-> None]

\* fetchVaultBalances lines 303-310 and fetchVaultBalance lines 215-217
StartVaultBalance(j) ==
    IF getChainById(getAllVaults[j].chainId) = None
    THEN [IdleVaultTask EXCEPT !.pc = "rejected"]
    ELSE [IdleVaultTask EXCEPT !.pc = "getBlockNumber"]

VaultBalance(j, usdcBalance, aTokenBalance) ==
    [chainId |-> getAllVaults[j].chainId,
     vaultAddress |-> getAllVaults[j].vaultAddress,
     usdcBalance |-> usdcBalance,
     aTokenBalance |-> aTokenBalance,
     blockNumber |-> BlockNumber]

\* (fallback reads whose failure is taken as a balance of "0")
FallbackSettleZeroOnFailure(j, task) ==
    IF task.pc # "fallback" THEN task
    ELSE IF task.usdc.pc \in {"done", "failed"} /\ task.atok.pc \in {"done", "failed"}
    THEN [task EXCEPT !.pc = "fulfilled",
                      !.result = VaultBalance(j,
                          IF task.usdc.pc = "done" THEN task.usdc.balance ELSE <<0>>,
                          IF task.atok.pc = "done" THEN task.atok.balance ELSE <<0>>)]
    ELSE task

\* lines 235-247: the inner Promise.all of the two fallback reads
FallbackSettle(j, task) ==
    IF task.pc # "fallback" THEN task
    ELSE IF task.usdc.pc = "failed" \/ task.atok.pc = "failed"
    THEN [task EXCEPT !.pc = "rejected"]
    ELSE IF task.usdc.pc = "done" /\ task.atok.pc = "done"
    THEN [task EXCEPT !.pc = "fulfilled",
                      !.result = VaultBalance(j, task.usdc.balance,
                                              task.atok.balance)]
    ELSE task

\* a fallback read after its balanceOf settled (lines 144-164, 184-204)
SubAfterBalanceOf(sub, o) ==
    LET c == balanceOfCatch(o)
    IN  IF c.ok
        THEN [sub EXCEPT !.pc = "done", !.bal = c.bal,
                         !.balance = toString(c.balance)]
        ELSE [sub EXCEPT !.pc = "failed", !.bal = c.bal]

\* fetchVaultATokenBalance lines 174-183: to the first pending await
StartVaultATokenBalance(cache, chainConfig) ==
    LET call == CallStart(cache, chainConfig, chainConfig.usdcAddress)
    IN  IF call.pc = "done"
        THEN [IdleSub EXCEPT !.pc = "balanceOf", !.aTokenAddress = call.value]
        ELSE [IdleSub EXCEPT !.pc = "getATokenAddress"]

\* fetchVaultATokenBalance after its getATokenAddress call settled
SubAfterGetATokenAddress(sub, call) ==
    IF call.status = "ok"
    THEN [sub EXCEPT !.pc = "balanceOf", !.aTokenAddress = call.value]
    ELSE [sub EXCEPT !.pc = "failed"]

(***************************************************************************)
(* The caller: generateBalanceSnapshot lines 53-66 (getPoolValue lines     *)
(* 134-141 are the same): await fetchChainBalances, then await             *)
(* fetchVaultBalances, then aggregateBalances.  fetchVaultBalances is also *)
(* exported and callable on its own.                                       *)
(*   pc  "idle" | "fetchChainBalances" | "fetchVaultBalances"              *)
(*       | "aggregated" | "vaultsFetched" | "failed"                       *)
(*   inFlight  (history) the chain tasks still running when the caller's   *)
(*             await of fetchChainBalances threw                           *)
(***************************************************************************)
IdleReq ==
    [pc |-> "idle", mode |-> "none", chainBalances |-> None,
     vaultBalances |-> None, aggregated |-> None, inFlight |-> {}]

Running(tasks) ==
    { i \in DOMAIN tasks : tasks[i].pc \notin {"idle", "fulfilled", "rejected"} }

\* fetchVaultBalances as the caller starts or resumes it: the vault tasks
\* moved to newTasks; Promise.all, then the caller resumes (lines 62-65)
AfterVaultTask(newTasks, promise, request) ==
    LET p == PromiseAll(promise, newTasks)
    IN  /\ vaultTasks' = newTasks
        /\ vaultFetch' = p
        /\ IF promise.state = "pending" /\ p.state = "fulfilled"
           THEN IF request.mode = "pipeline"
                THEN req' = [request EXCEPT
                               !.pc = "aggregated",
                               !.vaultBalances = p.value,
                               !.aggregated =
                                   aggregateBalances(request.chainBalances,
                                                     p.value)]
                ELSE req' = [request EXCEPT !.pc = "vaultsFetched",
                                            !.vaultBalances = p.value]
           ELSE IF promise.state = "pending" /\ p.state = "rejected"
           THEN req' = [request EXCEPT !.pc = "failed"]
           ELSE req' = request

\* (a Promise.all that aborted the tasks still running when one rejects)
AfterChainTaskAborting(newTasks, promise, request) ==
    LET p == PromiseAll(promise, newTasks)
    IN  /\ chainFetch' = p
        /\ IF promise.state = "pending" /\ p.state = "fulfilled"
           THEN /\ chainTasks' = newTasks
                /\ AfterVaultTask(
                      [j \in VaultIdx |-> StartVaultBalance(j)], Pending,
                      [request EXCEPT !.pc = "fetchVaultBalances",
                                      !.chainBalances = p.value])
           ELSE IF promise.state = "pending" /\ p.state = "rejected"
           THEN /\ chainTasks' =
                      [i \in ChainIdx |->
                          IF i \in Running(newTasks)
                          THEN [newTasks[i] EXCEPT !.pc = "rejected"]
                          ELSE newTasks[i]]
                /\ req' = [request EXCEPT !.pc = "failed",
                                          !.inFlight = Running(newTasks)]
                /\ UNCHANGED <<vaultTasks, vaultFetch>>
           ELSE /\ chainTasks' = newTasks
                /\ req' = request
                /\ UNCHANGED <<vaultTasks, vaultFetch>>

\* the chain tasks moved to newTasks: Promise.all, then the caller resumes
\* and, with every chain balance in hand, starts fetchVaultBalances
\* (lines 58-62)
AfterChainTask(newTasks, promise, request) ==
    LET p == PromiseAll(promise, newTasks)
    IN  /\ chainTasks' = newTasks
        /\ chainFetch' = p
        /\ IF promise.state = "pending" /\ p.state = "fulfilled"
           THEN AfterVaultTask(
                   [j \in VaultIdx |-> StartVaultBalance(j)], Pending,
                   [request EXCEPT !.pc = "fetchVaultBalances",
                                   !.chainBalances = p.value])
           ELSE IF promise.state = "pending" /\ p.state = "rejected"
           THEN /\ req' = [request EXCEPT !.pc = "failed",
                                          !.inFlight = Running(newTasks)]
                /\ UNCHANGED <<vaultTasks, vaultFetch>>
           ELSE /\ req' = request
                /\ UNCHANGED <<vaultTasks, vaultFetch>>

(***************************************************************************)
(* Actions of the fetches.                                                 *)
(***************************************************************************)
\* fetchChainBalances lines 270-287: every chain's fetchATokenBalance is
\* started in the same turn, each running to its first pending await
FetchChainBalances ==
    /\ req.pc = "idle"
    /\ AfterChainTask([i \in ChainIdx |->
                         StartATokenBalance(aTokenAddressCache, getAllChains[i])],
                      Pending,
                      [IdleReq EXCEPT !.pc = "fetchChainBalances",
                                      !.mode = "pipeline"])
    /\ UNCHANGED <<resolveVars, signVars>>

\* fetchVaultBalances lines 295-316, called on its own
FetchVaultBalances ==
    /\ req.pc = "idle"
    /\ AfterVaultTask([j \in VaultIdx |-> StartVaultBalance(j)], Pending,
                      [IdleReq EXCEPT !.pc = "fetchVaultBalances",
                                      !.mode = "vaults"])
    /\ UNCHANGED <<resolveVars, chainTasks, chainFetch, signVars>>

\* getATokenAddress inside fetchATokenBalance: the pool answered
ChainReserveDataReturns(i) ==
    /\ chainTasks[i].pc = "getATokenAddress"
    /\ LET call == PendingCall(getAllChains[i])
           r == LiveOk(aTokenAddressCache, call,
                       reserveData[cacheKey(call.chain, call.usdc)])
       IN  /\ aTokenAddressCache' = r.cache
           /\ AfterChainTask([chainTasks EXCEPT
                 ![i] = AfterGetATokenAddress(@, r.call)], chainFetch, req)
    /\ UNCHANGED <<reserveData, res, signVars>>

\* getATokenAddress inside fetchATokenBalance: the pool lookup threw
ChainReserveDataThrows(i) ==
    /\ chainTasks[i].pc = "getATokenAddress"
    /\ LET r == Fallback(aTokenAddressCache, PendingCall(getAllChains[i]))
       IN  /\ aTokenAddressCache' = r.cache
           /\ AfterChainTask([chainTasks EXCEPT
                 ![i] = AfterGetATokenAddress(@, r.call)], chainFetch, req)
    /\ UNCHANGED <<reserveData, res, signVars>>

\* lines 97-110: balanceOf settled
ChainBalanceOf(i) ==
    /\ chainTasks[i].pc = "balanceOf"
    /\ \E o \in BalanceOutcomes :
          LET c == balanceOfCatch(o)
          IN  AfterChainTask([chainTasks EXCEPT
                 ![i].pc = IF c.ok THEN "getBlockNumber" ELSE "rejected",
                 ![i].bal = c.bal,
                 ![i].balance = c.balance], chainFetch, req)
    /\ UNCHANGED <<resolveVars, signVars>>

\* lines 110-125: getBlockNumber answered
ChainBlockNumberReturns(i) ==
    /\ chainTasks[i].pc = "getBlockNumber"
    /\ AfterChainTask([chainTasks EXCEPT
          ![i].pc = "fulfilled",
          ![i].result = ChainBalance(i, chainTasks[i])], chainFetch, req)
    /\ UNCHANGED <<resolveVars, signVars>>

\* lines 110, 126-129: getBlockNumber threw
ChainBlockNumberThrows(i) ==
    /\ chainTasks[i].pc = "getBlockNumber"
    /\ AfterChainTask([chainTasks EXCEPT ![i].pc = "rejected",
                                         ![i].balance = 0], chainFetch, req)
    /\ UNCHANGED <<resolveVars, signVars>>

\* fetchVaultBalance line 217
VaultBlockNumberReturns(j) ==
    /\ vaultTasks[j].pc = "getBlockNumber"
    /\ AfterVaultTask([vaultTasks EXCEPT ![j].pc = "totalAssets"],
                      vaultFetch, req)
    /\ UNCHANGED <<resolveVars, chainTasks, chainFetch, signVars>>

VaultBlockNumberThrows(j) ==
    /\ vaultTasks[j].pc = "getBlockNumber"
    /\ AfterVaultTask([vaultTasks EXCEPT ![j].pc = "rejected"],
                      vaultFetch, req)
    /\ UNCHANGED <<resolveVars, chainTasks, chainFetch, signVars>>

\* lines 230-231, 252-260: totalAssets answered
TotalAssetsReturns(j) ==
    /\ vaultTasks[j].pc = "totalAssets"
    /\ \E totalAssets \in Balances :
          AfterVaultTask([vaultTasks EXCEPT
             ![j].pc = "fulfilled", ![j].total = "ok",
             ![j].totalAssets = totalAssets,
             ![j].result = VaultBalance(j, <<0>>, toString(totalAssets))],
             vaultFetch, req)
    /\ UNCHANGED <<resolveVars, chainTasks, chainFetch, signVars>>

\* lines 232-238: totalAssets threw; both fallback reads are started
TotalAssetsThrows(j) ==
    /\ vaultTasks[j].pc = "totalAssets"
    /\ AfterVaultTask([vaultTasks EXCEPT
          ![j].pc = "fallback", ![j].total = "failed",
          ![j].usdc = [IdleSub EXCEPT !.pc = "balanceOf"],
          ![j].atok = StartVaultATokenBalance(aTokenAddressCache,
                         getChainById(getAllVaults[j].chainId))],
          vaultFetch, req)
    /\ UNCHANGED <<resolveVars, chainTasks, chainFetch, signVars>>

\* fetchVaultUSDCBalance lines 144-164
VaultUSDCBalanceOf(j) ==
    /\ vaultTasks[j].usdc.pc = "balanceOf"
    /\ \E o \in BalanceOutcomes :
          AfterVaultTask([vaultTasks EXCEPT ![j] =
             FallbackSettle(j, [vaultTasks[j] EXCEPT
                                  !.usdc = SubAfterBalanceOf(@, o)])],
             vaultFetch, req)
    /\ UNCHANGED <<resolveVars, chainTasks, chainFetch, signVars>>

\* getATokenAddress inside fetchVaultATokenBalance (line 180)
VaultReserveDataReturns(j) ==
    /\ vaultTasks[j].atok.pc = "getATokenAddress"
    /\ LET call == PendingCall(getChainById(getAllVaults[j].chainId))
           r == LiveOk(aTokenAddressCache, call,
                       reserveData[cacheKey(call.chain, call.usdc)])
       IN  /\ aTokenAddressCache' = r.cache
           /\ AfterVaultTask([vaultTasks EXCEPT ![j] =
                 FallbackSettle(j, [vaultTasks[j] EXCEPT
                    !.atok = SubAfterGetATokenAddress(@, r.call)])],
                 vaultFetch, req)
    /\ UNCHANGED <<reserveData, res, chainTasks, chainFetch, signVars>>

VaultReserveDataThrows(j) ==
    /\ vaultTasks[j].atok.pc = "getATokenAddress"
    /\ LET r == Fallback(aTokenAddressCache,
                         PendingCall(getChainById(getAllVaults[j].chainId)))
       IN  /\ aTokenAddressCache' = r.cache
           /\ AfterVaultTask([vaultTasks EXCEPT ![j] =
                 FallbackSettle(j, [vaultTasks[j] EXCEPT
                    !.atok = SubAfterGetATokenAddress(@, r.call)])],
                 vaultFetch, req)
    /\ UNCHANGED <<reserveData, res, chainTasks, chainFetch, signVars>>

\* fetchVaultATokenBalance lines 184-204
VaultATokenBalanceOf(j) ==
    /\ vaultTasks[j].atok.pc = "balanceOf"
    /\ \E o \in BalanceOutcomes :
          AfterVaultTask([vaultTasks EXCEPT ![j] =
             FallbackSettle(j, [vaultTasks[j] EXCEPT
                                  !.atok = SubAfterBalanceOf(@, o)])],
             vaultFetch, req)
    /\ UNCHANGED <<resolveVars, chainTasks, chainFetch, signVars>>

FetchInit ==
    /\ chainTasks = [i \in ChainIdx |-> IdleTask]
    /\ chainFetch = NotStarted
    /\ vaultTasks = [j \in VaultIdx |-> IdleVaultTask]
    /\ vaultFetch = NotStarted
    /\ req = IdleReq

\* the pool listings the fetches run against: the table in sync with the chain
ReserveDataInSync ==
    \A in \in ConfiguredInputs :
        reserveData[cacheKey(in[1], in[2])] = KnownAToken(in[1].chainId, in[2])

InitFetch == ResolveInit /\ ReserveDataInSync /\ FetchInit /\ SignIdle

NextFetch ==
    \/ FetchChainBalances
    \/ FetchVaultBalances
    \/ \E i \in ChainIdx :
          \/ ChainReserveDataReturns(i)
          \/ ChainReserveDataThrows(i)
          \/ ChainBalanceOf(i)
          \/ ChainBlockNumberReturns(i)
          \/ ChainBlockNumberThrows(i)
    \/ \E j \in VaultIdx :
          \/ VaultBlockNumberReturns(j)
          \/ VaultBlockNumberThrows(j)
          \/ TotalAssetsReturns(j)
          \/ TotalAssetsThrows(j)
          \/ VaultUSDCBalanceOf(j)
          \/ VaultReserveDataReturns(j)
          \/ VaultReserveDataThrows(j)
          \/ VaultATokenBalanceOf(j)

SpecFetch == InitFetch /\ [][NextFetch]_vars

(***************************************************************************)
(* fetchChainBalances alone, with the event loop's guarantee that every    *)
(* RPC a task awaits is eventually answered or fails.                      *)
(***************************************************************************)
NextChains ==
    \/ FetchChainBalances
    \/ \E i \in ChainIdx :
          \/ ChainReserveDataReturns(i)
          \/ ChainReserveDataThrows(i)
          \/ ChainBalanceOf(i)
          \/ ChainBlockNumberReturns(i)
          \/ ChainBlockNumberThrows(i)

SpecChainsFair == InitFetch /\ [][NextChains]_vars /\ WF_vars(NextChains)

(***************************************************************************)
(* aggregateBalances as a pure function of its two lists.                  *)
(***************************************************************************)
MaxList == 2

RECURSIVE SeqsUpTo(_, _)
SeqsUpTo(S, n) ==
    IF n = 0 THEN {<< >>}
    ELSE LET shorter == SeqsUpTo(S, n - 1)
         IN  shorter \cup { Append(q, x) : q \in shorter, x \in S }

ChainBalanceInputs ==
    { [chainId |-> getAllChains[1].chainId, aTokenBalance |-> toString(b),
       aTokenAddress |-> OtherAToken, blockNumber |-> BlockNumber] :
        b \in Balances }

VaultBalanceInputs ==
    { [chainId |-> getAllVaults[1].chainId,
       vaultAddress |-> getAllVaults[1].vaultAddress,
       usdcBalance |-> toString(u), aTokenBalance |-> toString(a),
       blockNumber |-> BlockNumber] : u \in Balances, a \in Balances }

InitAggregate ==
    /\ ResolveInit /\ ReserveDataInSync /\ SignIdle
    /\ chainTasks = [i \in ChainIdx |-> IdleTask]
    /\ chainFetch = NotStarted
    /\ vaultTasks = [j \in VaultIdx |-> IdleVaultTask]
    /\ vaultFetch = NotStarted
    /\ \E cb \in SeqsUpTo(ChainBalanceInputs, MaxList),
          vb \in SeqsUpTo(VaultBalanceInputs, MaxList) :
          req = [IdleReq EXCEPT !.mode = "aggregate", !.chainBalances = cb,
                                !.vaultBalances = vb]

AggregateBalances ==
    /\ req.pc = "idle"
    /\ req' = [req EXCEPT
                  !.pc = "aggregated",
                  !.aggregated = aggregateBalances(req.chainBalances,
                                                   req.vaultBalances)]
    /\ UNCHANGED <<resolveVars, chainTasks, chainFetch, vaultTasks, vaultFetch,
                   signVars>>

NextAggregate == AggregateBalances

SpecAggregate == InitAggregate /\ [][NextAggregate]_vars

InitResolve == ResolveInit /\ FetchInit /\ SignIdle

NextResolve ==
    \E c \in Callers :
        \/ GetATokenAddress(c)
        \/ ReserveDataReturns(c)
        \/ ReserveDataThrows(c)
        \/ CallReturns(c)

SpecResolve == InitResolve /\ [][NextResolve]_vars

(***************************************************************************)
(* nearContractService.ts.  Numbers and bytes.                             *)
(***************************************************************************)
\* JS numbers are doubles: an integer survives parseInt / JSON only up to
\* its mantissa (53 bits in JS; MantissaBits here, so that the model's
\* balances reach past it).  Beyond, it is rounded to the nearest
\* representable value, ties to even.
MantissaBits == 10

RECURSIVE Ulp(_, _)
Ulp(v, u) == IF v < (2 ^ MantissaBits) * u THEN u ELSE Ulp(v, 2 * u)

ToDouble(v) ==
    LET u == Ulp(v, 1)
        q == v \div u
        rem == v % u
    IN  IF 2 * rem < u THEN q * u
        ELSE IF 2 * rem > u THEN (q + 1) * u
        ELSE IF q % 2 = 0 THEN q * u ELSE (q + 1) * u

\* parseInt(string) of a decimal string
parseInt(str) == ToDouble(BigInt(str))

\* 32 bytes, big-endian, of a number below 2^31
Bytes32(n) ==
    [i \in 1..32 |-> IF i < 29 THEN 0 ELSE (n \div (256 ^ (32 - i))) % 256]

RECURSIVE FromBytes(_)
FromBytes(bytes) ==
    IF bytes = << >> THEN 0
    ELSE 256 * FromBytes(SubSeq(bytes, 1, Len(bytes) - 1)) + bytes[Len(bytes)]

(***************************************************************************)
(* The structured-data digest (ethers.TypedDataEncoder.hash, lines         *)
(* 158-181).  The hash is modelled by a number that is different for       *)
(* different field values within the model's ranges; an address enters by  *)
(* its bytes, not its letter case.                                         *)
(***************************************************************************)
AddrCode(a) ==
    CASE a.hex = "773035ea" -> 1
      [] a.hex = "e168d95f" -> 2
      [] a.hex = "742d35cc" -> 3
      [] OTHER -> 0

ChainCode(chainId) ==
    CASE chainId = 84532 -> 1
      [] chainId = 421614 -> 2
      [] OTHER -> 0

TypedDataHash(chainId, verifyingContract, balance, nonce, deadline, assets, receiver) ==
    ((((((ChainCode(chainId) * 4 + AddrCode(verifyingContract)) * 4
           + AddrCode(receiver)) * 2 + (nonce % 2)) * 2 + (deadline % 2)) * 2
           + (assets % 2)) * 64) + (balance % 64)

\* lines 175-181: the digest recomputed locally from the snapshot strings
LocalDigest(snapshot, vaultAddress, chainId) ==
    TypedDataHash(chainId, vaultAddress, BigInt(snapshot.balance),
                  BigInt(snapshot.nonce), BigInt(snapshot.deadline),
                  BigInt(snapshot.assets), snapshot.receiver)

\* lines 81-92: the arguments sent to the contract
BuildArgs(snapshot, vaultAddress, chainId) ==
    [balance |-> parseInt(snapshot.balance),
     chain_id |-> chainId,
     verifying_contract |-> vaultAddress,
     nonce |-> parseInt(snapshot.nonce),
     deadline |-> parseInt(snapshot.deadline),
     assets |-> snapshot.assets,
     receiver |-> snapshot.receiver]

\* the digest the contract computes on-chain from the arguments it received
ContractDigest(args) ==
    TypedDataHash(args.chain_id, args.verifying_contract, args.balance,
                  args.nonce, args.deadline, BigInt(args.assets), args.receiver)

(***************************************************************************)
(* ECDSA, abstractly.  A signature by key k over digest d is r = the key,  *)
(* s = the digest, each as 32 bytes, with a recovery id fixed by (k, d).   *)
(* Recovery gives the key's address exactly for (d, r, s, that recovery    *)
(* id) and an unrelated address for anything else.                         *)
(***************************************************************************)
Keys == {"agent", "other"}
KeyCode(k) == IF k = "agent" THEN 1 ELSE 2
KeyAddress(k) ==
    IF k = "agent" THEN Addr("20f2747b", "mixed") ELSE Addr("5e11e7ab", "mixed")
UnrelatedAddress == Addr("deadbeef", "mixed")

RecoveryId(k, digest) == (KeyCode(k) + digest) % 2

\* the 65 bytes the contract callback returns: r(32) + s(32) + recovery id
MpcSign(k, digest) ==
    Bytes32(KeyCode(k)) \o Bytes32(digest) \o <<RecoveryId(k, digest)>>

\* ethers Signature.getNormalizedV
NormalizedV(b) ==
    IF b = 0 \/ b = 27 THEN 27
    ELSE IF b = 1 \/ b = 28 THEN 28
    ELSE IF b < 35 THEN 0
    ELSE IF b % 2 = 1 THEN 27 ELSE 28

\* ethers.recoverAddress(digest, signature): None stands for a throw
recoverAddress(digest, signature) ==
    IF Len(signature) # 65 THEN None
    ELSE LET r == FromBytes(SubSeq(signature, 1, 32))
             s == FromBytes(SubSeq(signature, 33, 64))
             v == NormalizedV(signature[65])
         IN  IF v = 0 THEN None
             ELSE IF \E k \in Keys : /\ r = KeyCode(k)
                                     /\ s = digest
                                     /\ v = 27 + RecoveryId(k, digest)
             THEN KeyAddress(CHOOSE k \in Keys : r = KeyCode(k))
             ELSE UnrelatedAddress

(***************************************************************************)
(* signBalanceSnapshot after account.functionCall returned (lines          *)
(* 114-199): one synchronous run.  It yields the call's outcome and, in    *)
(* order, the steps it performed.                                          *)
(*   result.kind  "none"     no status.SuccessValue                       *)
(*                "garbage"  SuccessValue is not JSON                      *)
(*                "json"     JSON, but not an array                        *)
(*                "array"    a JSON array of numbers (result.bytes)        *)
(***************************************************************************)
Min(a, b) == IF a < b THEN a ELSE b

\* Buffer.subarray(from, to), clipped to the buffer
subarray(buf, from, to) == SubSeq(buf, from + 1, Min(to, Len(buf)))

\* line 137
HasSignatureLengthUnchecked(signatureBytes) == TRUE

HasSignatureLength(signatureBytes) == Len(signatureBytes) = 65

\* line 188
SameAddressUnchecked(recovered, expected) == TRUE

SameAddress(recovered, expected) ==
    toLowerCase(recovered) = toLowerCase(expected)

\* lines 143-154: r, s unchanged, v = recovery id + 27 as one byte
EthereumSignature(signatureBytes) ==
    LET r == subarray(signatureBytes, 0, 32)
        s == subarray(signatureBytes, 32, 64)
        recoveryId == IF Len(signatureBytes) > 64 THEN signatureBytes[65] ELSE 0
        v == recoveryId + 27
    IN  r \o s \o <<v % 256>>

Thrown(error, steps) ==
    [status |-> "error", error |-> error, signature |-> None,
     agentAddress |-> None, steps |-> steps]

AfterFunctionCall(result, snapshot, vaultAddress, chainId, agentAddress) ==
    IF result.kind = "none"
    THEN Thrown("NoSuccessValue", <<"SuccessValue">>)
    ELSE IF result.kind = "garbage"
    THEN Thrown("SyntaxError", <<"SuccessValue", "JSON.parse">>)
    ELSE IF result.kind # "array"
    THEN Thrown("NotAnArray", <<"SuccessValue", "JSON.parse", "isArray">>)
    ELSE
    LET signatureBytes == [i \in 1..Len(result.bytes) |-> result.bytes[i] % 256]
        decoded == <<"SuccessValue", "JSON.parse", "isArray", "length">>
    IN  IF ~HasSignatureLength(signatureBytes)
        THEN Thrown("InvalidSignatureLength", decoded)
        ELSE
        LET signature65 == EthereumSignature(signatureBytes)
            digest == LocalDigest(snapshot, vaultAddress, chainId)
            recoveredAddress == recoverAddress(digest, signature65)
            verified == decoded \o <<"extract", "digest", "recoverAddress">>
        IN  IF recoveredAddress = None
            THEN Thrown("InvalidSignature", verified)
            ELSE IF ~SameAddress(recoveredAddress, agentAddress)
            THEN Thrown("SignatureVerificationFailed",
                        Append(verified, "compare"))
            ELSE [status |-> "ok", error |-> "none",
                  signature |-> signature65,
                  agentAddress |-> agentAddress,
                  steps |-> Append(verified, "compare")]

(***************************************************************************)
(* What the contract call can return for given arguments.                  *)
(***************************************************************************)
Array(bytes) == [kind |-> "array", bytes |-> bytes]

MpcResults(args) ==
    LET honest == MpcSign("agent", ContractDigest(args))
        stale == MpcSign("agent",
                         ContractDigest([args EXCEPT !.nonce = 1 - (@ % 2)]))
    IN  { [kind |-> "none", bytes |-> << >>],
          [kind |-> "garbage", bytes |-> << >>],
          [kind |-> "json", bytes |-> << >>],
          Array(honest),
          Array(MpcSign("other", ContractDigest(args))),
          Array(stale),
          Array([honest EXCEPT ![65] = 1 - @]),
          Array([honest EXCEPT ![65] = 27 + @]),
          Array([honest EXCEPT ![65] = 8 + @]),
          Array([honest EXCEPT ![1] = 256 + @]),
          Array(SubSeq(honest, 1, 64)),
          Array(Append(honest, 0)),
          Array(<< >>) }

(***************************************************************************)
(* Inputs and actions of signBalanceSnapshot.                              *)
(***************************************************************************)
receiver0 == Addr("742d35cc", "mixed")

SnapshotInputs ==
    [balance : { toString(b) : b \in Balances \cup {2 ^ MantissaBits + 1} },
     nonce : { toString(0), toString(1) },
     deadline : { toString(2 ^ MantissaBits - 4) },
     assets : { toString(5) },
     receiver : { receiver0 }]

\* lines 207-215: getNearContract() returns the instance, constructing it
\* on the first call; a constructor that throws leaves no instance
GetNearContract ==
    /\ IF signer # None
       THEN /\ boot' = "ok"
            /\ UNCHANGED signer
       ELSE LET made == constructor(env)
            IN  /\ boot' = IF made.thrown = "none" THEN "ok" ELSE made.thrown
                /\ signer' = made.instance
    /\ UNCHANGED <<sign, gen, worldVars, resolveVars, fetchVars>>

\* (a catch block that awaits something that never settles)
catchBlockPending(call, out) ==
    IF out.status = "error"
    THEN [call EXCEPT !.pc = "catch"]
    ELSE [call EXCEPT !.pc = "done", !.out = out]

\* (a catch block that calls the contract again after a transport error)
catchBlockRetrying(call, out) ==
    IF out.error = "TransportError" /\ call.submitted < 2
    THEN [call EXCEPT !.pc = "connect"]
    ELSE [call EXCEPT !.pc = "done", !.out = out]

\* lines 196-203: the call returns its result or logs and rethrows
catchBlock(call, out) == [call EXCEPT !.pc = "done", !.out = out]

\* (a service that falls back to uninitialized when a call fails)
serviceResetOnError(service, out) ==
    IF out.status = "error"
    THEN [service EXCEPT !.isInitialized = FALSE, !.keyStore = None]
    ELSE service

\* lines 114-203 assign no field of the service
serviceAfterCall(service, out) == service

\* (a signer that queues a call while another call is in flight)
StartSignBalanceSnapshotQueued(q, snapshot, vaultAddress, chainId) ==
    /\ UNCHANGED signer
    /\ sign' = [sign EXCEPT ![q] =
          [IdleSign EXCEPT
             !.snapshot = snapshot,
             !.vaultAddress = vaultAddress,
             !.chainId = chainId,
             !.args = BuildArgs(snapshot, vaultAddress, chainId),
             !.pc = IF \E p \in SignIds \ {q} : sign[p].pc \notin {"idle", "done"}
                    THEN "queued" ELSE "connect"]]

\* (a call that starts initialize() and goes on without awaiting it)
StartSignBalanceSnapshotNoAwait(q, snapshot, vaultAddress, chainId) ==
    /\ signer' = IF signer.isInitialized THEN signer
                 ELSE [signer EXCEPT
                         !.keyStore = [keys |-> {signer.nearAccountId}]]
    /\ sign' = [sign EXCEPT ![q] =
          [IdleSign EXCEPT
             !.snapshot = snapshot,
             !.vaultAddress = vaultAddress,
             !.chainId = chainId,
             !.args = BuildArgs(snapshot, vaultAddress, chainId),
             !.pc = "connect"]]

\* lines 59-67: the call starts; an uninitialized signer runs initialize()
\* up to its await of keyStore.setKey; lines 69-101 otherwise
StartSignBalanceSnapshot(q, snapshot, vaultAddress, chainId) ==
    LET started == [IdleSign EXCEPT
                       !.snapshot = snapshot,
                       !.vaultAddress = vaultAddress,
                       !.chainId = chainId,
                       !.afterFailure =
                           \E p \in SignIds \ {q} :
                               /\ sign[p].pc = "done"
                               /\ sign[p].out.status = "error"]
    IN  IF ~signer.isInitialized
        THEN /\ signer' = [signer EXCEPT
                              !.keyStore = [keys |-> {signer.nearAccountId}]]
             /\ sign' = [sign EXCEPT ![q] = [started EXCEPT !.pc = "initialize"]]
        ELSE /\ UNCHANGED signer
             /\ sign' = [sign EXCEPT ![q] =
                   [started EXCEPT
                      !.pc = "connect",
                      !.args = BuildArgs(snapshot, vaultAddress, chainId)]]

\* signBalanceSnapshot called directly on the instance
SignBalanceSnapshot(q) ==
    /\ signer # None
    /\ sign[q].pc = "idle"
    /\ \A g \in GenIds : gen[g].pc = "idle"
    /\ \E snapshot \in SnapshotInputs, j \in VaultIdx :
          StartSignBalanceSnapshot(q, snapshot, getAllVaults[j].vaultAddress,
                                   getAllVaults[j].chainId)
    /\ UNCHANGED <<boot, gen, worldVars, resolveVars, fetchVars>>

\* lines 45-48, then 69-101: setKey resolved
InitializeReturns(q) ==
    /\ sign[q].pc = "initialize"
    /\ signer' = [signer EXCEPT !.isInitialized = TRUE]
    /\ sign' = [sign EXCEPT
                  ![q].pc = "connect",
                  ![q].args = BuildArgs(sign[q].snapshot, sign[q].vaultAddress,
                                        sign[q].chainId)]
    /\ UNCHANGED <<boot, gen, worldVars, resolveVars, fetchVars>>

\* lines 97-103
ConnectReturns(q) ==
    /\ sign[q].pc = "connect"
    /\ sign' = [sign EXCEPT ![q].pc = "account"]
    /\ UNCHANGED <<boot, signer, gen, worldVars, resolveVars, fetchVars>>

\* lines 103-112: near.account resolved; account.functionCall is invoked
AccountReturns(q) ==
    /\ sign[q].pc = "account"
    /\ sign' = [sign EXCEPT ![q].pc = "functionCall",
                            ![q].submitted = @ + 1]
    /\ UNCHANGED <<boot, signer, gen, worldVars, resolveVars, fetchVars>>

\* connect, near.account or account.functionCall threw (lines 200-203)
TransportThrows(q) ==
    /\ sign[q].pc \in {"connect", "account", "functionCall"}
    /\ LET out == Thrown("TransportError", << >>)
       IN  /\ sign' = [sign EXCEPT ![q] = catchBlock(sign[q], out)]
           /\ signer' = serviceAfterCall(signer, out)
    /\ UNCHANGED <<boot, gen, worldVars, resolveVars, fetchVars>>

\* lines 106-199: the contract call returned
FunctionCallReturns(q) ==
    /\ sign[q].pc = "functionCall"
    /\ \E result \in MpcResults(sign[q].args) :
          LET out == AfterFunctionCall(result, sign[q].snapshot,
                        sign[q].vaultAddress, sign[q].chainId,
                        signer.agentAddress)
          IN  /\ sign' = [sign EXCEPT
                            ![q] = catchBlock([sign[q] EXCEPT !.result = result],
                                              out)]
              /\ signer' = serviceAfterCall(signer, out)
    /\ UNCHANGED <<boot, gen, worldVars, resolveVars, fetchVars>>

\* the direct caller has the answer; the slot serves a later request
SignReturns(q) ==
    /\ sign[q].pc = "done"
    /\ \A g \in GenIds : gen[g].pc = "idle"
    /\ sign' = [sign EXCEPT ![q] = IdleSign]
    /\ UNCHANGED <<boot, signer, gen, worldVars, resolveVars, fetchVars>>

InitSign == ResolveInit /\ ReserveDataInSync /\ FetchInit /\ SignInit

NextSign ==
    \/ GetNearContract
    \/ \E q \in SignIds :
          \/ SignBalanceSnapshot(q)
          \/ InitializeReturns(q)
          \/ ConnectReturns(q)
          \/ AccountReturns(q)
          \/ TransportThrows(q)
          \/ FunctionCallReturns(q)
          \/ SignReturns(q)

SpecSign == InitSign /\ [][NextSign]_vars

\* signBalanceSnapshot with every await of a call eventually settling:
\* setKey resolves, connect, near.account and functionCall return or throw;
\* the requests are for the vault on Base Sepolia at its first nonce
NextSignFair ==
    \/ GetNearContract
    \/ \E q \in SignIds :
          \/ /\ SignBalanceSnapshot(q)
             /\ sign'[q].snapshot.nonce = toString(0)
             /\ sign'[q].chainId = 84532
          \/ InitializeReturns(q)
          \/ ConnectReturns(q)
          \/ AccountReturns(q)
          \/ TransportThrows(q)
          \/ FunctionCallReturns(q)
          \/ SignReturns(q)

SpecSignFair ==
    /\ InitSign
    /\ [][NextSignFair]_vars
    /\ \A q \in SignIds :
          WF_vars(\/ InitializeReturns(q)
                  \/ ConnectReturns(q)
                  \/ AccountReturns(q)
                  \/ TransportThrows(q)
                  \/ FunctionCallReturns(q))

(***************************************************************************)
(* oracleService.ts: generateBalanceSnapshot.  The two fetches are taken   *)
(* by their outcome (a full list or a throw); the vault reads of           *)
(* vaultService (getCrossChainInvestedAssets, getVaultNonce) answer from   *)
(* the chain or throw.                                                     *)
(***************************************************************************)
\* line 88: Math.floor(Date.now() / 1000) + 300
DeadlineWindow == 300

MaxTime == 1
MaxNonce == 1

DeadlineWithoutWindow(t) == t

Deadline(t) == t + DeadlineWindow

\* (a snapshot whose balance is the aggregate's total of aTokens)
BuildSnapshotFromAggregate(crossChainBalance, aggregated, nonce, deadline, assets, receiver) ==
    [balance |-> aggregated.totalATokens,
     nonce |-> toString(nonce),
     deadline |-> toString(deadline),
     assets |-> assets,
     receiver |-> receiver]

\* lines 92-98
BuildSnapshot(crossChainBalance, aggregated, nonce, deadline, assets, receiver) ==
    [balance |-> toString(crossChainBalance),
     nonce |-> toString(nonce),
     deadline |-> toString(deadline),
     assets |-> assets,
     receiver |-> receiver]

\* (a result that reports the receiver in lower case)
SignedBalanceSnapshotLowerCase(snapshot, signature, agentAddress, signerAddress) ==
    [balance |-> snapshot.balance,
     nonce |-> snapshot.nonce,
     deadline |-> snapshot.deadline,
     assets |-> snapshot.assets,
     receiver |-> toLowerCase(snapshot.receiver),
     signature |-> signature,
     agentAddress |-> agentAddress,
     signerAddress |-> signerAddress]

\* lines 112-116: { ...snapshot, signature, agentAddress }; signerAddress
\* is the address signBalanceSnapshot verified the signature against
SignedBalanceSnapshot(snapshot, signature, agentAddress, signerAddress) ==
    [balance |-> snapshot.balance,
     nonce |-> snapshot.nonce,
     deadline |-> snapshot.deadline,
     assets |-> snapshot.assets,
     receiver |-> snapshot.receiver,
     signature |-> signature,
     agentAddress |-> agentAddress,
     signerAddress |-> signerAddress]

\* (the first vault of the list, whatever the chain asked for)
VaultIndexFirst(chainId) == 1

\* the vault of the chain: getAllVaults, lines 47-54 of config/chains.ts
VaultIndex(chainId) ==
    CHOOSE j \in VaultIdx : getAllVaults[j].chainId = chainId

\* (a catch block that goes on to the nonce query with a balance of 0 when
\* the vault balance fetch threw)
FailedGoesOn(request, error) ==
    IF request.pc = "fetchVaultBalances"
    THEN [request EXCEPT !.pc = "getVaultNonce", !.crossChainBalance = 0]
    ELSE [request EXCEPT !.pc = "failed", !.error = error]

\* (a catch block that logs the error and answers what it has)
FailedLoggedOnly(request, error) ==
    [request EXCEPT !.pc = "returned", !.error = error,
                    !.result = [balance |-> toString(0), nonce |-> toString(0),
                                deadline |-> toString(0),
                                assets |-> request.assets,
                                receiver |-> request.receiver,
                                signature |-> None,
                                agentAddress |-> request.agentAddress,
                                signerAddress |-> None]]

\* lines 118-121: log and rethrow
Failed(request, error) == [request EXCEPT !.pc = "failed", !.error = error]

\* lines 48-58: getAgentAddress, then fetchChainBalances(agentAddress);
\* vaultChainId is a chain with a vault, one without, or one not configured
GenerateBalanceSnapshot(g) ==
    /\ signer # None
    /\ gen[g].pc = "idle"
    /\ sign[g].pc = "idle"
    /\ \E vaultChainId \in {84532, 421614, 11155111, 1} :
          gen' = [gen EXCEPT ![g] =
                    [IdleGen EXCEPT
                       !.pc = "fetchChainBalances",
                       !.assets = toString(5),
                       !.receiver = receiver0,
                       !.vaultChainId = vaultChainId,
                       !.agentAddress = getAgentAddress(signer),
                       !.holder = getAgentAddress(signer)]]
    /\ UNCHANGED <<boot, signer, sign, worldVars, resolveVars, fetchVars>>

\* lines 58-62: fetchChainBalances settled
ChainBalancesSettle(g) ==
    /\ gen[g].pc = "fetchChainBalances"
    /\ \E thrown \in BOOLEAN, b \in Balances :
          LET o == [i \in ChainIdx |->
                      ChainBalance(i, [IdleTask EXCEPT
                                         !.balance = b,
                                         !.aTokenAddress =
                                             KnownAToken(getAllChains[i].chainId,
                                                         getAllChains[i].usdcAddress)])]
          IN
          gen' = [gen EXCEPT ![g] =
                    IF thrown THEN Failed(@, "fetchChainBalances")
                    ELSE [@ EXCEPT !.pc = "fetchVaultBalances",
                                   !.chainBalances = o]]
    /\ UNCHANGED <<boot, signer, sign, worldVars, resolveVars, fetchVars>>

\* lines 62-80: fetchVaultBalances settled; aggregate; look up the vault
VaultBalancesSettle(g) ==
    /\ gen[g].pc = "fetchVaultBalances"
    /\ \E thrown \in BOOLEAN, a \in [VaultIdx -> Balances] :
          LET o == [j \in VaultIdx |-> VaultBalance(j, <<0>>, toString(a[j]))]
              vaultChain == getChainById(gen[g].vaultChainId)
              fetched == [gen[g] EXCEPT
                            !.vaultBalances = o,
                            !.aggregated =
                                aggregateBalances(gen[g].chainBalances, o)]
          IN  gen' = [gen EXCEPT ![g] =
                        IF thrown THEN Failed(@, "fetchVaultBalances")
                        ELSE IF vaultChain = None
                        THEN Failed(fetched, "No vault configured")
                        ELSE IF vaultChain.vaultAddress = None
                        THEN Failed(fetched, "No vault configured")
                        ELSE [fetched EXCEPT
                                !.pc = "getCrossChainInvestedAssets",
                                !.vaultReads =
                                    Append(@, [call |-> "getCrossChainInvestedAssets",
                                               vaultAddress |-> vaultChain.vaultAddress,
                                               chainId |-> gen[g].vaultChainId])]]
    /\ UNCHANGED <<boot, signer, sign, worldVars, resolveVars, fetchVars>>

\* lines 76-84: getCrossChainInvestedAssets answered; getVaultNonce is
\* called for the same vault
InvestedAssetsReturns(g) ==
    /\ gen[g].pc = "getCrossChainInvestedAssets"
    /\ \E crossChainBalance \in Balances \cup {2 ^ MantissaBits + 1} :
          gen' = [gen EXCEPT
                    ![g].pc = "getVaultNonce",
                    ![g].crossChainBalance = crossChainBalance,
                    ![g].vaultReads =
                        Append(@, [call |-> "getVaultNonce",
                                   vaultAddress |->
                                       getChainById(gen[g].vaultChainId).vaultAddress,
                                   chainId |-> gen[g].vaultChainId])]
    /\ UNCHANGED <<boot, signer, sign, worldVars, resolveVars, fetchVars>>

\* getCrossChainInvestedAssets or getVaultNonce threw
VaultReadThrows(g) ==
    /\ gen[g].pc \in {"getCrossChainInvestedAssets", "getVaultNonce"}
    /\ gen' = [gen EXCEPT ![g] = Failed(@, gen[g].pc)]
    /\ UNCHANGED <<boot, signer, sign, worldVars, resolveVars, fetchVars>>

\* lines 84-108: getVaultNonce answered; the deadline is taken from the
\* clock, the snapshot is built and signBalanceSnapshot is called
VaultNonceReturns(g) ==
    /\ gen[g].pc = "getVaultNonce"
    /\ LET vaultChain == getChainById(gen[g].vaultChainId)
           nonce == vaultNonce[VaultIndex(gen[g].vaultChainId)]
           deadline == Deadline(now)
           snapshot == BuildSnapshot(gen[g].crossChainBalance,
                                     gen[g].aggregated, nonce, deadline,
                                     gen[g].assets, gen[g].receiver)
       IN  /\ gen' = [gen EXCEPT ![g].pc = "signBalanceSnapshot",
                                 ![g].snapshot = snapshot,
                                 ![g].nonceRead = nonce,
                                 ![g].clockRead = now,
                                 ![g].signCalls = @ + 1]
           /\ StartSignBalanceSnapshot(g, snapshot, vaultChain.vaultAddress,
                                       vaultChain.chainId)
    /\ UNCHANGED <<boot, worldVars, resolveVars, fetchVars>>

\* lines 104-121: signBalanceSnapshot returned or threw
GenSignReturns(g) ==
    /\ gen[g].pc = "signBalanceSnapshot"
    /\ sign[g].pc = "done"
    /\ gen' = [gen EXCEPT ![g] =
                 IF sign[g].out.status = "ok"
                 THEN [@ EXCEPT
                         !.pc = "returned",
                         !.result =
                             SignedBalanceSnapshot(gen[g].snapshot,
                                                   sign[g].out.signature,
                                                   gen[g].agentAddress,
                                                   sign[g].out.agentAddress)]
                 ELSE Failed(@, sign[g].out.error)]
    /\ sign' = [sign EXCEPT ![g] = IdleSign]
    /\ UNCHANGED <<boot, signer, worldVars, resolveVars, fetchVars>>

\* the caller has the answer; a later request may follow
GenReturns(g) ==
    /\ gen[g].pc \in {"returned", "failed"}
    /\ gen' = [gen EXCEPT ![g] = IdleGen]
    /\ UNCHANGED <<boot, signer, sign, worldVars, resolveVars, fetchVars>>

\* time passes
Tick ==
    /\ now < MaxTime
    /\ now' = now + 1
    /\ UNCHANGED <<env, vaultNonce, publicKey, runs, boot, signer, sign, gen,
                   resolveVars, fetchVars>>

\* a deposit on chain uses up a vault's nonce
NonceAdvances(j) ==
    /\ vaultNonce[j] < MaxNonce
    /\ vaultNonce' = [vaultNonce EXCEPT ![j] = @ + 1]
    /\ UNCHANGED <<env, now, publicKey, runs, boot, signer, sign, gen,
                   resolveVars, fetchVars>>

NextOracle ==
    \/ GetNearContract
    \/ Tick
    \/ \E j \in VaultIdx : NonceAdvances(j)
    \/ \E g \in {"s1"} :
          \/ GenerateBalanceSnapshot(g)
          \/ ChainBalancesSettle(g)
          \/ VaultBalancesSettle(g)
          \/ InvestedAssetsReturns(g)
          \/ VaultReadThrows(g)
          \/ VaultNonceReturns(g)
          \/ InitializeReturns(g)
          \/ ConnectReturns(g)
          \/ AccountReturns(g)
          \/ TransportThrows(g)
          \/ FunctionCallReturns(g)
          \/ GenSignReturns(g)
          \/ GenReturns(g)

SpecOracle == InitSign /\ [][NextOracle]_vars

(***************************************************************************)
(* Two generateBalanceSnapshot requests in flight together for the vault   *)
(* on Base Sepolia, every external call answering: the behaviours of the   *)
(* oracle in which nothing throws and the fetches find no balance.         *)
(***************************************************************************)
NextRace ==
    \/ GetNearContract
    \/ NonceAdvances(VaultIndex(84532))
    \/ \E g \in GenIds :
          \/ GenerateBalanceSnapshot(g) /\ gen'[g].vaultChainId = 84532
          \/ /\ ChainBalancesSettle(g)
             /\ gen'[g].pc = "fetchVaultBalances"
             /\ gen'[g].chainBalances[1].aTokenBalance = toString(0)
          \/ /\ VaultBalancesSettle(g)
             /\ gen'[g].pc = "getCrossChainInvestedAssets"
             /\ gen'[g].aggregated.totalATokens = toString(0)
          \/ InvestedAssetsReturns(g) /\ gen'[g].crossChainBalance = BalanceStep
          \/ VaultNonceReturns(g)
          \/ InitializeReturns(g)
          \/ ConnectReturns(g)
          \/ AccountReturns(g)
          \/ FunctionCallReturns(g) /\ sign'[g].out.status = "ok"
          \/ GenSignReturns(g)
          \/ GenReturns(g)

SpecRace == InitFetch /\ [][NextRace]_vars

(***************************************************************************)
(* The two scripts: each run queries public_key and derives the address.   *)
(***************************************************************************)
\* derive-agent-address.ts lines 11-60
DeriveAgentAddressRuns(r) ==
    /\ runs' = [runs EXCEPT ![r] = [publicKeyStr |-> publicKey,
                                    out |-> deriveAgentAddress(publicKey)]]
    /\ UNCHANGED <<env, vaultNonce, now, publicKey, boot, signer, sign, gen,
                   resolveVars, fetchVars>>

\* verify-agent-address.ts lines 19-53, 79-82
VerifyAgentAddressRuns(r) ==
    /\ runs' = [runs EXCEPT ![r] = [publicKeyStr |-> publicKey,
                                    out |-> verifyDeriveAgentAddress(publicKey)]]
    /\ UNCHANGED <<env, vaultNonce, now, publicKey, boot, signer, sign, gen,
                   resolveVars, fetchVars>>

\* provider.query threw: the run ends without a key
QueryThrows(r) ==
    /\ runs' = [runs EXCEPT ![r] = [publicKeyStr |-> None,
                                    out |-> [status |-> "error",
                                             address |-> None]]]
    /\ UNCHANGED <<env, vaultNonce, now, publicKey, boot, signer, sign, gen,
                   resolveVars, fetchVars>>

\* the MPC contract answers another key from now on
PublicKeyChanges ==
    /\ \E k \in PublicKeyStrs \ {publicKey} : publicKey' = k
    /\ UNCHANGED <<env, vaultNonce, now, runs, boot, signer, sign, gen,
                   resolveVars, fetchVars>>

InitDerive ==
    /\ ResolveInit /\ ReserveDataInSync /\ FetchInit
    /\ env = Credentials
    /\ SignerInit
    /\ publicKey \in PublicKeyStrs

NextDerive ==
    \/ \E r \in RunIds \ {"verify-agent-address"} : DeriveAgentAddressRuns(r)
    \/ VerifyAgentAddressRuns("verify-agent-address")
    \/ \E r \in RunIds : QueryThrows(r)
    \/ PublicKeyChanges

SpecDerive == InitDerive /\ [][NextDerive]_vars

(***************************************************************************)
(* Claims about signBalanceSnapshot (checked under SpecSign).              *)
(***************************************************************************)
\* C1: a call returns a signature only if the address recovered from the
\* locally recomputed digest and the returned signature is the agent
\* address, letter case aside; every other call ends in an error and
\* returns no signature.
C1_OnlyVerifiedSignatures ==
    \A q \in SignIds :
        sign[q].pc = "done" =>
            LET digest == LocalDigest(sign[q].snapshot, sign[q].vaultAddress,
                                      sign[q].chainId)
                recovered == recoverAddress(digest, sign[q].out.signature)
            IN  /\ sign[q].out.status \in {"ok", "error"}
                /\ sign[q].out.status = "ok" =>
                      /\ sign[q].out.signature # None
                      /\ recovered # None
                      /\ recovered.hex = signer.agentAddress.hex
                      /\ sign[q].out.agentAddress = signer.agentAddress
                /\ sign[q].out.status = "error" =>
                      /\ sign[q].out.signature = None
                      /\ sign[q].out.error # "none"

C1_Witness ==
    /\ sign["s1"].pc = "done" /\ sign["s1"].out.status = "ok"
    /\ sign["s1"].out.signature # None
    /\ recoverAddress(LocalDigest(sign["s1"].snapshot, sign["s1"].vaultAddress,
                                  sign["s1"].chainId),
                      sign["s1"].out.signature) # signer.agentAddress
    /\ sign["s2"].pc = "done"
    /\ sign["s2"].out.error = "SignatureVerificationFailed"
    /\ sign["s2"].out.signature = None

\* C2: a response that decodes to a byte array whose length is not 65 is
\* rejected with an error, and the call has then neither extracted r, s, v
\* nor computed a digest nor attempted a recovery.
C2_LengthCheckedFirst ==
    \A q \in SignIds :
        (/\ sign[q].pc = "done" /\ sign[q].result # None
         /\ sign[q].result.kind = "array"
         /\ Len(sign[q].result.bytes) # 65) =>
            /\ sign[q].out.status = "error"
            /\ sign[q].out.error = "InvalidSignatureLength"
            /\ sign[q].out.signature = None
            /\ \A k \in DOMAIN sign[q].out.steps :
                  sign[q].out.steps[k] \notin
                      {"extract", "digest", "recoverAddress", "compare"}
            /\ sign[q].out.steps[Len(sign[q].out.steps)] = "length"

C2_Witness ==
    /\ sign["s1"].pc = "done" /\ sign["s1"].result # None
    /\ sign["s1"].result.kind = "array" /\ Len(sign["s1"].result.bytes) = 64
    /\ sign["s1"].out.error = "InvalidSignatureLength"
    /\ sign["s2"].pc = "done" /\ sign["s2"].result # None
    /\ sign["s2"].result.kind = "array" /\ Len(sign["s2"].result.bytes) = 66
    /\ sign["s2"].out.error = "InvalidSignatureLength"

\* C27: a result without a success value, or whose success
\* value is not a JSON array of bytes (no JSON, no array, or an array with
\* an element that is no byte), ends the request with an error before any
\* decoding of the signature, digest computation or recovery.
C27_NonByteArrayFailsEarly ==
    \A q \in SignIds :
        (/\ sign[q].pc = "done" /\ sign[q].result # None
         /\ \/ sign[q].result.kind # "array"
            \/ \E k \in DOMAIN sign[q].result.bytes :
                  sign[q].result.bytes[k] \notin 0..255) =>
            /\ sign[q].out.status = "error"
            /\ \A k \in DOMAIN sign[q].out.steps :
                  sign[q].out.steps[k] \notin
                      {"extract", "digest", "recoverAddress", "compare"}

\* C12: the balance, nonce, deadline, chain id and verifying contract sent
\* to the contract are exactly the values the local digest is computed
\* from, also for a balance past the range a JS number holds exactly.
C12_SubmittedEqualsLocal ==
    \A q \in SignIds :
        sign[q].args # None =>
            /\ sign[q].args.balance = BigInt(sign[q].snapshot.balance)
            /\ sign[q].args.nonce = BigInt(sign[q].snapshot.nonce)
            /\ sign[q].args.deadline = BigInt(sign[q].snapshot.deadline)
            /\ sign[q].args.chain_id = sign[q].chainId
            /\ sign[q].args.verifying_contract = sign[q].vaultAddress

\* C13: every returned signature is 65 bytes: bytes 0..31 and 32..63 of
\* the response unchanged, then v = the response's last byte + 27, and v is
\* 27 or 28.
C13_SignatureLayout ==
    \A q \in SignIds :
        (sign[q].pc = "done" /\ sign[q].out.status = "ok") =>
            /\ Len(sign[q].out.signature) = 65
            /\ SubSeq(sign[q].out.signature, 1, 64)
                  = SubSeq(sign[q].result.bytes, 1, 64)
            /\ sign[q].out.signature[65] = sign[q].result.bytes[65] + 27
            /\ sign[q].out.signature[65] \in {27, 28}

\* C14: while a required credential is missing, getNearContract() throws
\* the constructor's error and leaves no instance: no signer exists, none
\* is ever initialized and no signing request is started, let alone
\* submitted; an instance exists only with all three credentials set.
C14_MissingCredentialIsFatal ==
    /\ env # Credentials =>
          /\ signer = None
          /\ boot \in {"none", "NEAR credentials required",
                        "NEAR_CONTRACT_ID required"}
          /\ ("NEAR_CONTRACT_ID" \notin env /\ boot # "none") =>
                boot \in {"NEAR credentials required", "NEAR_CONTRACT_ID required"}
          /\ \A q \in SignIds : sign[q].pc = "idle" /\ sign[q].submitted = 0
          /\ \A g \in GenIds : gen[g].pc = "idle"
    /\ boot = "ok" => (env = Credentials /\ signer # None)
    /\ signer # None => env = Credentials

C14_Witness ==
    /\ env = Credentials \ {"NEAR_CONTRACT_ID"}
    /\ boot = "NEAR_CONTRACT_ID required"
    /\ signer = None

\* C15: a signing request that fails on an initialized signer changes no
\* field of the signer and no other request, and a request started after
\* a failure is taken up like any other: it goes straight to the contract
\* call with the arguments built from its own snapshot.
C15_SignerStaysReady ==
    [][/\ (signer # None /\ signer.isInitialized) => signer' = signer
       /\ \A q \in SignIds :
             /\ (/\ signer # None /\ signer.isInitialized
                 /\ sign[q].pc \notin {"idle", "done"}
                 /\ sign'[q].pc = "done" /\ sign'[q].out.status = "error") =>
                   \A p \in SignIds \ {q} : sign'[p] = sign[p]
             /\ (/\ signer # None /\ signer.isInitialized
                 /\ sign[q].pc = "idle" /\ sign'[q].pc # "idle"
                 /\ sign'[q].afterFailure) =>
                   /\ sign'[q].pc = "connect"
                   /\ sign'[q].args = BuildArgs(sign'[q].snapshot,
                                                sign'[q].vaultAddress,
                                                sign'[q].chainId)]_vars

C15_Witness ==
    /\ signer # None /\ signer.isInitialized
    /\ signer.agentAddress = AGENT_ADDRESS
    /\ sign["s1"].pc = "done" /\ sign["s1"].out.status = "error"
    /\ sign["s2"].pc = "done" /\ sign["s2"].out.status = "ok"
    /\ sign["s2"].afterFailure

\* C31: however the signBalanceSnapshot calls started on an uninitialized
\* signer interleave, a call is past initialize (connecting, or submitted
\* to the contract) only while the signer is initialized and its key store
\* holds the key of the signing account; once the signer is initialized no
\* step changes it, be it a call that begins (it goes straight to connect)
\* or an initialize begun earlier that completes.
C31_SubmittedOnlyWhenInitialized ==
    /\ [](\A q \in SignIds :
            (sign[q].pc \in {"connect", "account", "functionCall"}
               \/ sign[q].submitted > 0) =>
                /\ signer # None
                /\ signer.isInitialized
                /\ signer.keyStore # None
                /\ signer.nearAccountId \in signer.keyStore.keys)
    /\ [][(signer # None /\ signer.isInitialized) =>
             /\ signer' = signer
             /\ \A q \in SignIds :
                   (sign[q].pc = "idle" /\ sign'[q].pc # "idle") =>
                       sign'[q].pc = "connect"]_vars

C31_Witness ==
    /\ signer # None /\ signer.isInitialized
    /\ sign["s1"].pc = "functionCall" /\ sign["s1"].submitted = 1
    /\ sign["s2"].pc = "initialize"
    /\ signer.nearAccountId \in signer.keyStore.keys

(***************************************************************************)
(* Claims about generateBalanceSnapshot (checked under SpecOracle).        *)
(***************************************************************************)
\* C16: no retry is made internally: a signing request invokes the
\* contract call at most once and a generateBalanceSnapshot request calls
\* signBalanceSnapshot at most once, whatever the outcome.
C16_NoInternalRetry ==
    /\ \A q \in SignIds : sign[q].submitted <= 1
    /\ \A g \in GenIds :
          /\ gen[g].signCalls <= 1
          /\ gen[g].pc \in {"returned", "failed"} /\ gen[g].snapshot # None =>
                gen[g].signCalls = 1

C16_Witness ==
    \E g \in GenIds :
        /\ gen[g].pc = "signBalanceSnapshot" /\ gen[g].signCalls = 1
        /\ sign[g].pc = "done" /\ sign[g].out.error = "TransportError"
        /\ sign[g].submitted = 1

\* C17: the step of a request that builds the snapshot takes the nonce
\* the vault holds at that step and the deadline 300 seconds after the
\* clock at that step, and hands the snapshot to signBalanceSnapshot
\* with nothing submitted yet; the contract call is only made later, with
\* that nonce and that deadline.
C17_FreshNonceAndDeadline ==
    [][\A g \in GenIds :
          /\ (gen[g].pc = "getVaultNonce" /\ gen'[g].pc = "signBalanceSnapshot") =>
                /\ gen'[g].snapshot.nonce =
                      toString(vaultNonce[VaultIndex(gen[g].vaultChainId)])
                /\ gen'[g].snapshot.deadline = toString(now + DeadlineWindow)
                /\ sign[g].pc = "idle"
                /\ sign'[g].snapshot = gen'[g].snapshot
                /\ sign'[g].submitted = 0
          /\ (sign[g].submitted = 0 /\ sign'[g].submitted = 1) =>
                /\ sign[g].snapshot = gen[g].snapshot
                /\ gen[g].snapshot.nonce = toString(gen[g].nonceRead)
                /\ gen[g].snapshot.deadline =
                      toString(gen[g].clockRead + DeadlineWindow)]_vars

C17_Witness ==
    \E g \in GenIds :
        /\ gen[g].pc = "signBalanceSnapshot"
        /\ gen[g].nonceRead = 1 /\ gen[g].clockRead = 1
        /\ gen[g].snapshot.nonce = toString(1)
        /\ gen[g].snapshot.deadline = toString(1 + DeadlineWindow)
        /\ sign[g].submitted = 1

\* C18 as stated: the balance of the snapshot is a figure of the
\* request's aggregation: the vault's invested balance in it or one of its
\* totals.
C18_BalanceFromAggregation ==
    \A g \in GenIds :
        gen[g].snapshot # None =>
            gen[g].snapshot.balance \in
                { gen[g].aggregated.vaultBalances[
                      VaultIndex(gen[g].vaultChainId)].aTokenBalance,
                  gen[g].aggregated.totalATokens,
                  gen[g].aggregated.totalValue }

\* C18: the balance of the snapshot, and of the signed snapshot returned,
\* is the decimal string of the value getCrossChainInvestedAssets answered
\* in this request for the vault's chain; the aggregation is computed
\* before that query and none of its figures enters the snapshot.
C18_BalanceFromInvestedAssetsQuery ==
    \A g \in GenIds :
        /\ gen[g].snapshot # None =>
              /\ gen[g].aggregated # None
              /\ gen[g].snapshot.balance = toString(gen[g].crossChainBalance)
        /\ gen[g].result # None =>
              gen[g].result.balance = toString(gen[g].crossChainBalance)

C18_Witness ==
    \E g \in GenIds :
        /\ gen[g].pc = "returned"
        /\ gen[g].result.balance = toString(BalanceStep)
        /\ gen[g].aggregated.totalATokens = toString(0)
        /\ gen[g].aggregated.totalValue = toString(0)

\* C19: the agent address never changes: the instance holds the
\* configured address from construction on, every request hands that
\* address to fetchChainBalances as the holder, a signature is only
\* accepted when it recovers to that address, and every signed snapshot
\* returned carries it as agentAddress.
C19_AgentIdentityStable ==
    /\ signer # None =>
          /\ signer.agentAddress = AGENT_ADDRESS
          /\ getAgentAddress(signer) = AGENT_ADDRESS
    /\ \A q \in SignIds :
          (sign[q].pc = "done" /\ sign[q].out.status = "ok") =>
              /\ sign[q].out.agentAddress = AGENT_ADDRESS
              /\ SameAddress(recoverAddress(LocalDigest(sign[q].snapshot,
                                                        sign[q].vaultAddress,
                                                        sign[q].chainId),
                                            sign[q].out.signature),
                             AGENT_ADDRESS)
    /\ \A g \in GenIds :
          /\ gen[g].pc # "idle" =>
                /\ gen[g].holder = AGENT_ADDRESS
                /\ gen[g].agentAddress = AGENT_ADDRESS
          /\ gen[g].result # None =>
                /\ gen[g].result.agentAddress = AGENT_ADDRESS
                /\ gen[g].result.signerAddress = AGENT_ADDRESS

C19_Witness ==
    \E g \in GenIds :
        /\ gen[g].pc = "returned"
        /\ gen[g].holder = AGENT_ADDRESS
        /\ gen[g].result.agentAddress = AGENT_ADDRESS
        /\ gen[g].result.signerAddress = getAgentAddress(signer)

\* C28: a request whose vaultChainId is no configured chain, or a
\* configured chain without a vault address, never has a vault nonce or
\* invested-assets query issued nor the signer called, and once both
\* balance fetches are through it has failed for the missing vault; exactly
\* one vault is configured for the vaultChainId of a request that got
\* further, both vault queries were addressed to that vault and chain, the
\* digest's verifying contract and chain id are that vault and chain, and
\* the nonce of the snapshot is the one read from that vault's counter.
C28_OnlyTheConfiguredVault ==
    /\ [](\A g \in GenIds :
            LET vaultChain == getChainById(gen[g].vaultChainId)
                vaults == {j \in VaultIdx :
                              getAllVaults[j].chainId = gen[g].vaultChainId}
                read(call, vault) ==
                    [call |-> call, vaultAddress |-> vault.vaultAddress,
                     chainId |-> vault.chainId]
            IN  /\ (gen[g].pc # "idle" /\
                    (vaultChain = None \/ vaults = {})) =>
                      /\ gen[g].pc \in {"fetchChainBalances",
                                        "fetchVaultBalances", "failed"}
                      /\ gen[g].vaultReads = << >>
                      /\ gen[g].signCalls = 0
                      /\ sign[g].pc = "idle"
                      /\ gen[g].aggregated # None =>
                            /\ gen[g].pc = "failed"
                            /\ gen[g].error = "No vault configured"
                /\ gen[g].vaultReads # << >> =>
                      /\ Cardinality(vaults) = 1
                      /\ \A j \in vaults :
                            /\ vaultChain.vaultAddress =
                                   getAllVaults[j].vaultAddress
                            /\ \A k \in DOMAIN gen[g].vaultReads :
                                  gen[g].vaultReads[k] =
                                      read(IF k = 1
                                           THEN "getCrossChainInvestedAssets"
                                           ELSE "getVaultNonce",
                                           getAllVaults[j])
                            /\ gen[g].signCalls > 0 =>
                                  Len(gen[g].vaultReads) = 2
                            /\ sign[g].pc # "idle" =>
                                  /\ sign[g].vaultAddress =
                                         getAllVaults[j].vaultAddress
                                  /\ sign[g].chainId = getAllVaults[j].chainId
                                  /\ sign[g].snapshot = gen[g].snapshot)
    /\ [][\A g \in GenIds :
            (gen[g].pc = "getVaultNonce" /\
             gen'[g].pc = "signBalanceSnapshot") =>
                \A j \in VaultIdx :
                    getAllVaults[j].chainId = gen[g].vaultChainId =>
                        gen'[g].snapshot.nonce = toString(vaultNonce[j])]_vars

C28_Witness ==
    /\ gen["s1"].pc = "signBalanceSnapshot"
    /\ gen["s1"].vaultChainId = 421614
    /\ sign["s1"].pc = "done"
    /\ sign["s1"].out.status = "ok"
    /\ vaultNonce[1] = 0
    /\ gen["s1"].snapshot.nonce = toString(1)

\* C29: the answer of a request that returns carries the balance, nonce,
\* deadline, assets and receiver of the snapshot that was handed to
\* signBalanceSnapshot, whose numbers are the ones submitted to the
\* contract and whose digest the returned signature was verified against;
\* the snapshot of a request does not change while it is being signed, and
\* assets and receiver are the values the caller supplied.
C29_ReturnedIsSubmitted ==
    /\ [](\A g \in GenIds :
            /\ (gen[g].pc = "signBalanceSnapshot" /\ sign[g].pc # "idle") =>
                  /\ sign[g].snapshot = gen[g].snapshot
                  /\ gen[g].snapshot.assets = gen[g].assets
                  /\ gen[g].snapshot.receiver = gen[g].receiver
            /\ gen[g].pc = "returned" =>
                  /\ gen[g].result.balance = gen[g].snapshot.balance
                  /\ gen[g].result.nonce = gen[g].snapshot.nonce
                  /\ gen[g].result.deadline = gen[g].snapshot.deadline
                  /\ gen[g].result.assets = gen[g].assets
                  /\ gen[g].result.receiver = gen[g].receiver)
    /\ [][\A g \in GenIds :
            (gen[g].pc = "signBalanceSnapshot" /\ gen'[g].pc = "returned") =>
                /\ gen'[g].snapshot = sign[g].snapshot
                /\ gen'[g].assets = gen[g].assets
                /\ gen'[g].receiver = gen[g].receiver
                /\ BigInt(gen'[g].result.balance) = sign[g].args.balance
                /\ BigInt(gen'[g].result.nonce) = sign[g].args.nonce
                /\ BigInt(gen'[g].result.deadline) = sign[g].args.deadline
                /\ gen'[g].result.assets = sign[g].args.assets
                /\ gen'[g].result.receiver = sign[g].args.receiver
                /\ gen'[g].result.signature = sign[g].out.signature
                /\ recoverAddress(
                       TypedDataHash(sign[g].chainId, sign[g].vaultAddress,
                                     BigInt(gen'[g].result.balance),
                                     BigInt(gen'[g].result.nonce),
                                     BigInt(gen'[g].result.deadline),
                                     BigInt(gen'[g].result.assets),
                                     gen'[g].result.receiver),
                       gen'[g].result.signature) # None]_vars

C29_Witness ==
    /\ gen["s1"].pc = "returned"
    /\ gen["s1"].vaultChainId = 421614
    /\ gen["s1"].result.balance = toString(BalanceStep)
    /\ gen["s1"].result.nonce = toString(1)
    /\ gen["s1"].result.receiver = receiver0
    /\ gen["s1"].result.assets = toString(5)

\* C22: no error is swallowed by generateBalanceSnapshot.  A request ends
\* either failed, with an error and no result, or returned, with a result
\* and no error; it returns only out of a signBalanceSnapshot call that
\* ended without error, after every earlier step gave its value; and a
\* signBalanceSnapshot call that ended in an error (transport, decoding,
\* length, recovery, verification) makes the request fail with that error.
C22_NoErrorSwallowed ==
    /\ [](\A g \in GenIds :
            /\ gen[g].pc = "failed" <=> gen[g].error # "none"
            /\ gen[g].pc = "returned" <=> gen[g].result # None
            /\ gen[g].result # None =>
                  /\ gen[g].error = "none"
                  /\ gen[g].aggregated # None /\ gen[g].snapshot # None
                  /\ gen[g].signCalls = 1)
    /\ [][\A g \in GenIds :
            /\ (gen[g].pc # "returned" /\ gen'[g].pc = "returned") =>
                  /\ gen[g].pc = "signBalanceSnapshot"
                  /\ sign[g].pc = "done" /\ sign[g].out.status = "ok"
                  /\ gen'[g].result.signature = sign[g].out.signature
            /\ (/\ gen[g].pc = "signBalanceSnapshot" /\ sign[g].pc = "done"
                /\ sign[g].out.status = "error" /\ gen'[g] # gen[g]) =>
                  /\ gen'[g].pc = "failed"
                  /\ gen'[g].error = sign[g].out.error
                  /\ gen'[g].result = None]_vars

C22_Witness ==
    \E g \in GenIds :
        /\ gen[g].pc = "failed" /\ gen[g].result = None
        /\ gen[g].error = "SignatureVerificationFailed"
        /\ gen[g].snapshot # None

\* C26 (checked under SpecSignFair): every signing request that was
\* started ends, and ends in exactly one way: with a signature and no
\* error, or with an error and no signature.
C26_RequestTerminates ==
    /\ \A q \in SignIds :
          (sign[q].pc \notin {"idle", "done"}) ~> (sign[q].pc = "done")
    /\ [](\A q \in SignIds :
            sign[q].pc = "done" =>
                \/ /\ sign[q].out.status = "ok" /\ sign[q].out.error = "none"
                   /\ Len(sign[q].out.signature) = 65
                \/ /\ sign[q].out.status = "error" /\ sign[q].out.error # "none"
                   /\ sign[q].out.signature = None)

C26_Witness ==
    /\ sign["s1"].pc = "done" /\ sign["s1"].out.status = "ok"
    /\ sign["s2"].pc = "done" /\ sign["s2"].out.status = "error"
    /\ sign["s2"].out.error = "TransportError"

\* C25: a request goes through its steps in one order: chain balance
\* fetch, vault balance fetch (with the vault lookup), invested-assets
\* query, nonce query, signBalanceSnapshot; each step is entered only out
\* of the step before it having succeeded, and a step that fails ends the
\* request.  signBalanceSnapshot is called only in the step in which the
\* nonce query answers, and a request that failed before that step never
\* called it and submitted nothing.
C25_SignerCalledLast ==
    /\ [](\A g \in GenIds :
            /\ gen[g].pc \in {"idle", "fetchChainBalances", "fetchVaultBalances",
                              "getCrossChainInvestedAssets", "getVaultNonce"} =>
                  /\ gen[g].signCalls = 0 /\ gen[g].snapshot = None
                  /\ sign[g].pc = "idle" /\ sign[g].submitted = 0
            /\ (gen[g].pc = "failed" /\ gen[g].snapshot = None) =>
                  /\ gen[g].signCalls = 0
                  /\ sign[g].pc = "idle" /\ sign[g].submitted = 0)
    /\ [][\A g \in GenIds :
            /\ gen'[g].pc # gen[g].pc =>
                  <<gen[g].pc, gen'[g].pc>> \in
                      { <<"idle", "fetchChainBalances">>,
                        <<"fetchChainBalances", "fetchVaultBalances">>,
                        <<"fetchVaultBalances", "getCrossChainInvestedAssets">>,
                        <<"getCrossChainInvestedAssets", "getVaultNonce">>,
                        <<"getVaultNonce", "signBalanceSnapshot">>,
                        <<"signBalanceSnapshot", "returned">>,
                        <<"fetchChainBalances", "failed">>,
                        <<"fetchVaultBalances", "failed">>,
                        <<"getCrossChainInvestedAssets", "failed">>,
                        <<"getVaultNonce", "failed">>,
                        <<"signBalanceSnapshot", "failed">>,
                        <<"returned", "idle">>, <<"failed", "idle">> }
            /\ (sign[g].pc = "idle" /\ sign'[g].pc # "idle") =>
                  /\ gen[g].pc = "getVaultNonce"
                  /\ gen'[g].pc = "signBalanceSnapshot"
                  /\ gen'[g].aggregated # None
                  /\ gen'[g].snapshot.balance = toString(gen[g].crossChainBalance)
                  /\ gen'[g].signCalls = 1]_vars

C25_Witness ==
    \E g \in GenIds :
        /\ gen[g].pc = "failed" /\ gen[g].error = "getVaultNonce"
        /\ gen[g].aggregated # None /\ gen[g].snapshot = None
        /\ gen[g].signCalls = 0 /\ sign[g].submitted = 0

\* C24 (checked under SpecRace): requests are not serialised.  A request
\* that reads the vault's nonce while another request for the same vault
\* holds a snapshot with the nonce the vault still has takes that same
\* nonce, is handed to signBalanceSnapshot in the same step, and leaves
\* the other request as it is.
C24_RequestsNotSerialised ==
    [][\A g, h \in GenIds :
          (/\ g # h
           /\ gen[g].pc = "getVaultNonce" /\ gen'[g].pc = "signBalanceSnapshot"
           /\ gen[h].pc = "signBalanceSnapshot"
           /\ gen[h].vaultChainId = gen[g].vaultChainId
           /\ gen[h].nonceRead = vaultNonce[VaultIndex(gen[g].vaultChainId)]) =>
              /\ gen'[g].snapshot.nonce = gen[h].snapshot.nonce
              /\ sign'[g].pc \in {"initialize", "connect"}
              /\ gen'[h] = gen[h] /\ sign'[h] = sign[h]]_vars

\* both requests submitted, and got signed, a snapshot with the same nonce
C24_Witness ==
    /\ gen["s1"].pc = "returned" /\ gen["s2"].pc = "returned"
    /\ gen["s1"].vaultChainId = gen["s2"].vaultChainId
    /\ gen["s1"].result.nonce = gen["s2"].result.nonce
    /\ gen["s1"].result.nonce = toString(vaultNonce[VaultIndex(gen["s1"].vaultChainId)])

C21_KeyNormalisation ==
    \A r \in RunIds :
        (runs[r] # None /\ runs[r].publicKeyStr # None) =>
            LET key == runs[r].publicKeyStr.base58
                as65(b) == [curve |-> "secp256k1:", base58 |-> b]
            IN  /\ key.length \notin {33, 64, 65} =>
                      runs[r].out = [status |-> "error", address |-> None]
                /\ (key.length = 64 /\ runs[r].publicKeyStr.curve = "secp256k1:") =>
                      runs[r].out =
                          deriveAgentAddress(
                              as65(Buffer(65, <<4>> \o key.fields)))
                /\ (key.length = 33 /\ runs[r].publicKeyStr.curve = "secp256k1:"
                    /\ key.fields[1] \in {2, 3}
                    /\ key.fields[2] \in 1..((CurveOrder - 1) \div 2)) =>
                      runs[r].out =
                          deriveAgentAddress(
                              as65(Buffer(65, <<4, key.fields[2],
                                                key.fields[1] - 2>>)))

C21_Witness ==
    /\ runs["derive-agent-address 1"] # None
    /\ runs["derive-agent-address 1"].publicKeyStr # None
    /\ runs["derive-agent-address 1"].publicKeyStr.base58.length = 32
    /\ runs["derive-agent-address 1"].out.status = "error"
    /\ runs["derive-agent-address 2"] # None
    /\ runs["derive-agent-address 2"].publicKeyStr # None
    /\ runs["derive-agent-address 2"].publicKeyStr.base58.length = 64
    /\ runs["derive-agent-address 2"].out.status = "ok"
    /\ runs["verify-agent-address"] # None
    /\ runs["verify-agent-address"].publicKeyStr # None
    /\ runs["verify-agent-address"].publicKeyStr.base58.length = 33
    /\ runs["verify-agent-address"].out.status = "ok"
    /\ runs["verify-agent-address"].out.address
          # runs["derive-agent-address 2"].out.address

(***************************************************************************)
(* Claims about getATokenAddress (checked under SpecResolve).              *)
(***************************************************************************)
\* the static table read as the claim reads it: is the (chainId, base
\* asset) pair listed, whatever the letter case of the asset address
TableEntries(chainConfig, usdcAddress) ==
    { e \in KNOWN_ATOKEN_ADDRESSES :
        e[1] = chainConfig.chainId /\ e[2].hex = usdcAddress.hex }

\* C4: a call whose live pool lookup failed succeeds with the table's
\* address when the (chainId, base asset) pair is in the static table and
\* fails with an error when it is not; every configured chain with its
\* configured base asset resolves via the table.
C4_FallbackResolution ==
    \A c \in Callers :
        (res[c].pc = "done" /\ res[c].live = "failed") =>
            /\ TableEntries(res[c].chain, res[c].usdc) # {} =>
                  /\ res[c].status = "ok"
                  /\ \E e \in TableEntries(res[c].chain, res[c].usdc) :
                        res[c].value = e[3]
            /\ TableEntries(res[c].chain, res[c].usdc) = {} =>
                  /\ res[c].status = "error"
                  /\ res[c].value = None
            /\ <<res[c].chain, res[c].usdc>> \in ConfiguredInputs =>
                  res[c].status = "ok"

C4_Witness ==
    /\ res[c1].pc = "done" /\ res[c1].live = "failed"
    /\ <<res[c1].chain, res[c1].usdc>> \in ConfiguredInputs
    /\ res[c1].status = "ok"
    /\ res[c2].pc = "done" /\ res[c2].live = "failed"
    /\ TableEntries(res[c2].chain, res[c2].usdc) = {}
    /\ res[c2].status = "error"

\* C8: once a cache entry is populated its value never changes, under any
\* interleaving of concurrent getATokenAddress calls.
C8_CacheEntryNeverChanges ==
    [][\A k \in DOMAIN aTokenAddressCache :
          /\ k \in DOMAIN aTokenAddressCache'
          /\ aTokenAddressCache'[k] = aTokenAddressCache[k]]_vars

\* C9: every successful resolution, from the pool or from the table, leaves
\* the cache holding the returned address under (chainId, base asset), and a
\* call made while the key is cached returns the cached address with no pool
\* lookup and no table lookup.
C9_CachePopulatedAndUsed ==
    [][\A c \in Callers :
          /\ (res[c].pc = "getReserveData" /\ res'[c].pc = "done"
                /\ res'[c].status = "ok") =>
                /\ cacheKey(res'[c].chain, res'[c].usdc)
                      \in DOMAIN aTokenAddressCache'
                /\ aTokenAddressCache'[cacheKey(res'[c].chain, res'[c].usdc)]
                      = res'[c].value
          /\ (res[c].pc = "idle" /\ res'[c].pc # "idle"
                /\ cacheKey(res'[c].chain, res'[c].usdc)
                      \in DOMAIN aTokenAddressCache) =>
                /\ res'[c].pc = "done" /\ res'[c].status = "ok"
                /\ res'[c].value =
                      aTokenAddressCache[cacheKey(res'[c].chain, res'[c].usdc)]
                /\ res'[c].live = "none" /\ res'[c].table = "none"]_vars

C9_Witness ==
    /\ res[c1].pc = "done" /\ res[c1].cached /\ res[c1].live = "none"
    /\ res[c2].pc = "done" /\ res[c2].table = "hit"
    /\ res[c1].chain = res[c2].chain /\ res[c1].usdc = res[c2].usdc
    /\ res[c1].value = res[c2].value

\* C32 as stated: a call that fails leaves the cache unchanged, so that a
\* call made next with the same key attempts the live lookup again.
C32_LaterCallLooksUpAgain ==
    [][\A c \in Callers :
          (res[c].pc = "getReserveData" /\ res'[c].pc = "done"
             /\ res'[c].status = "error") =>
              /\ aTokenAddressCache' = aTokenAddressCache
              /\ CallStart(aTokenAddressCache', res'[c].chain,
                           res'[c].usdc).pc = "getReserveData"]_vars

\* C32: a call that fails (the live lookup threw and the pair is not in the
\* table) leaves the cache unchanged and returns no address; the cache
\* gains an entry only with the address a call returns successfully, so it
\* never holds a failure; a call begun later with the same key attempts the
\* live lookup again unless another call has cached an address under that
\* key in the meantime, and then it returns that address.
C32_FailureNotCached ==
    [][/\ \A c \in Callers :
             /\ (res[c].pc = "getReserveData" /\ res'[c].pc = "done"
                   /\ res'[c].status = "error") =>
                   /\ aTokenAddressCache' = aTokenAddressCache
                   /\ res'[c].value = None
                   /\ res'[c].live = "failed" /\ res'[c].table = "miss"
             /\ (res[c].pc = "done" /\ res[c].status = "error") =>
                   \A d \in Callers :
                       (/\ res[d].pc = "idle" /\ res'[d].pc # "idle"
                        /\ cacheKey(res'[d].chain, res'[d].usdc)
                              = cacheKey(res[c].chain, res[c].usdc)) =>
                           IF cacheKey(res[c].chain, res[c].usdc)
                                 \in DOMAIN aTokenAddressCache
                           THEN /\ res'[d].pc = "done"
                                /\ res'[d].status = "ok"
                                /\ res'[d].value =
                                      aTokenAddressCache[
                                          cacheKey(res[c].chain, res[c].usdc)]
                                /\ res'[d].value # None
                           ELSE /\ res'[d].pc = "getReserveData"
                                /\ res'[d].status = "none"
       /\ \A k \in DOMAIN aTokenAddressCache' :
             (k \notin DOMAIN aTokenAddressCache
                \/ aTokenAddressCache'[k] # aTokenAddressCache[k]) =>
                 /\ aTokenAddressCache'[k] # None
                 /\ \E c \in Callers :
                       /\ res[c].pc = "getReserveData"
                       /\ res'[c].pc = "done" /\ res'[c].status = "ok"
                       /\ cacheKey(res'[c].chain, res'[c].usdc) = k
                       /\ res'[c].value = aTokenAddressCache'[k]]_vars

C32_Witness ==
    /\ res[c1].pc = "done" /\ res[c1].status = "error"
    /\ res[c1].live = "failed" /\ res[c1].table = "miss"
    /\ cacheKey(res[c1].chain, res[c1].usdc) \notin DOMAIN aTokenAddressCache
    /\ res[c2].pc = "getReserveData"
    /\ res[c2].chain = res[c1].chain /\ res[c2].usdc = res[c1].usdc

(***************************************************************************)
(* Claims about the fetches and the aggregation.                           *)
(***************************************************************************)
\* C11: fetchVaultBalance reports aTokenBalance = totalAssets and
\* usdcBalance = "0" when totalAssets() answered, and then starts neither
\* fallback read; the two fallback reads run only after totalAssets() threw,
\* their balances are the result, and if one of them fails the query fails.
C11_TotalAssetsFirst ==
    \A j \in VaultIdx :
        LET task == vaultTasks[j]
        IN  /\ task.total = "ok" =>
                  /\ task.pc = "fulfilled"
                  /\ task.result.aTokenBalance = toString(task.totalAssets)
                  /\ task.result.usdcBalance = <<0>>
                  /\ task.usdc = IdleSub /\ task.atok = IdleSub
            /\ (task.usdc.pc # "idle" \/ task.atok.pc # "idle") =>
                  task.total = "failed"
            /\ (task.total = "failed"
                  /\ (task.usdc.pc = "failed" \/ task.atok.pc = "failed")) =>
                  /\ task.pc = "rejected" /\ task.result = None
            /\ (task.total = "failed" /\ task.pc = "fulfilled") =>
                  /\ task.usdc.pc = "done" /\ task.atok.pc = "done"
                  /\ task.result.usdcBalance = task.usdc.balance
                  /\ task.result.aTokenBalance = task.atok.balance
            /\ (task.total = "failed" /\ task.pc = "rejected") =>
                  (task.usdc.pc = "failed" \/ task.atok.pc = "failed")

C11_Witness ==
    /\ vaultTasks[1].total = "ok" /\ vaultTasks[1].pc = "fulfilled"
    /\ vaultTasks[1].totalAssets > 0
    /\ vaultTasks[2].total = "failed" /\ vaultTasks[2].pc = "rejected"
    /\ vaultTasks[2].usdc.pc = "done" /\ vaultTasks[2].atok.pc = "failed"

Settled(tasks) == { i \in DOMAIN tasks : tasks[i].pc \in {"fulfilled", "rejected"} }

\* C3: aggregation is all-or-nothing.  Once any per-chain or per-vault
\* query has failed, the enclosing fetch is rejected with no list, the
\* caller fails and holds no list and no aggregate; a fetch that did
\* fulfil, and any aggregate, is built from every task's own result.
C3_AllOrNothing ==
    /\ (\E i \in ChainIdx : chainTasks[i].pc = "rejected") =>
          /\ chainFetch = [state |-> "rejected", value |-> None]
          /\ req.pc = "failed"
          /\ req.chainBalances = None /\ req.aggregated = None
    /\ (\E j \in VaultIdx : vaultTasks[j].pc = "rejected") =>
          /\ vaultFetch = [state |-> "rejected", value |-> None]
          /\ req.pc = "failed"
          /\ req.vaultBalances = None /\ req.aggregated = None
    /\ chainFetch.state = "fulfilled" =>
          /\ Len(chainFetch.value) = Len(getAllChains)
          /\ \A i \in ChainIdx :
                /\ chainTasks[i].pc = "fulfilled"
                /\ chainFetch.value[i] = chainTasks[i].result
                /\ chainFetch.value[i].chainId = getAllChains[i].chainId
    /\ vaultFetch.state = "fulfilled" =>
          /\ Len(vaultFetch.value) = Len(getAllVaults)
          /\ \A j \in VaultIdx :
                /\ vaultTasks[j].pc = "fulfilled"
                /\ vaultFetch.value[j] = vaultTasks[j].result
                /\ vaultFetch.value[j].chainId = getAllVaults[j].chainId
    /\ req.aggregated # None =>
          /\ chainFetch.state = "fulfilled" /\ vaultFetch.state = "fulfilled"
          /\ req.aggregated.chainBalances = chainFetch.value
          /\ req.aggregated.vaultBalances = vaultFetch.value

C3_Witness ==
    /\ req.pc = "failed" /\ req.mode = "pipeline"
    /\ \E i, k \in ChainIdx :
          chainTasks[i].pc = "rejected" /\ chainTasks[k].pc = "fulfilled"
    /\ Settled(chainTasks) = ChainIdx

\* C23 as stated: in a round that fetches chains and vaults, all
\* per-chain and all per-vault queries are in flight together before any
\* result is awaited: while the caller awaits the chain balances, every
\* vault's query has been issued too.
C23_AllInFlightTogether ==
    (req.mode = "pipeline" /\ req.pc = "fetchChainBalances") =>
        \A j \in VaultIdx : vaultTasks[j].pc # "idle"

\* C23: the per-chain queries are all issued together and the caller is
\* suspended until all have completed or one has failed; the per-vault
\* queries are all issued together only after every chain balance has
\* arrived, and the caller is again suspended until all have completed or
\* one has failed.  No vault query is in flight while the chain balances
\* are awaited.
C23_ConcurrentWithinEachFetch ==
    /\ req.pc = "fetchChainBalances" =>
          /\ chainFetch.state = "pending"
          /\ \A i \in ChainIdx : chainTasks[i].pc \notin {"idle", "rejected"}
          /\ \E i \in ChainIdx : chainTasks[i].pc # "fulfilled"
          /\ \A j \in VaultIdx : vaultTasks[j].pc = "idle"
    /\ req.pc = "fetchVaultBalances" =>
          /\ vaultFetch.state = "pending"
          /\ \A j \in VaultIdx : vaultTasks[j].pc \notin {"idle", "rejected"}
          /\ \E j \in VaultIdx : vaultTasks[j].pc # "fulfilled"
          /\ req.mode = "pipeline" =>
                /\ chainFetch.state = "fulfilled"
                /\ \A i \in ChainIdx : chainTasks[i].pc = "fulfilled"
    /\ req.pc = "failed" =>
          \/ \E i \in ChainIdx : chainTasks[i].pc = "rejected"
          \/ \E j \in VaultIdx : vaultTasks[j].pc = "rejected"
    /\ req.pc \in {"vaultsFetched", "aggregated"} =>
          \A j \in VaultIdx : vaultTasks[j].pc = "fulfilled"

C23_Witness ==
    /\ req.mode = "pipeline" /\ req.pc = "fetchVaultBalances"
    /\ \A i \in ChainIdx : chainTasks[i].pc = "fulfilled"
    /\ Running(vaultTasks) = VaultIdx
    /\ \E j, k \in VaultIdx : vaultTasks[j].pc # vaultTasks[k].pc

\* C5 (as stated): a balance query whose balanceOf threw BAD_DATA yields
\* the balance 0 and never an error.
C5_EmptyDataNeverAnError ==
    /\ \A i \in ChainIdx :
          (chainTasks[i].bal = "BAD_DATA" /\ i \in Settled(chainTasks)) =>
              /\ chainTasks[i].pc = "fulfilled"
              /\ chainTasks[i].result.aTokenBalance = <<0>>
    /\ \A j \in VaultIdx :
          /\ vaultTasks[j].usdc.bal = "BAD_DATA" =>
                vaultTasks[j].usdc.pc = "done" /\ vaultTasks[j].usdc.balance = <<0>>
          /\ vaultTasks[j].atok.bal = "BAD_DATA" =>
                vaultTasks[j].atok.pc = "done" /\ vaultTasks[j].atok.balance = <<0>>

\* C5 (amended): a BAD_DATA error of balanceOf is never propagated and the
\* balance becomes 0.  fetchVaultUSDCBalance and fetchVaultATokenBalance
\* then return "0".  fetchATokenBalance goes on to getBlockNumber with the
\* balance 0: it returns aTokenBalance "0" when that call answers and fails
\* only when that call throws.
C5_EmptyDataIsZero ==
    [][/\ \A i \in ChainIdx :
             /\ (chainTasks[i].pc = "balanceOf"
                   /\ chainTasks'[i].bal = "BAD_DATA") =>
                   /\ chainTasks'[i].pc = "getBlockNumber"
                   /\ chainTasks'[i].balance = 0
             /\ (chainTasks[i].bal = "BAD_DATA"
                   /\ chainTasks[i].pc # chainTasks'[i].pc) =>
                   /\ chainTasks[i].pc = "getBlockNumber"
                   /\ chainTasks'[i].pc \in {"fulfilled", "rejected"}
                   /\ chainTasks'[i].pc = "fulfilled" =>
                         chainTasks'[i].result.aTokenBalance = <<0>>
       /\ \A j \in VaultIdx :
             /\ (vaultTasks[j].usdc.pc = "balanceOf"
                   /\ vaultTasks'[j].usdc.bal = "BAD_DATA") =>
                   /\ vaultTasks'[j].usdc.pc = "done"
                   /\ vaultTasks'[j].usdc.balance = <<0>>
             /\ (vaultTasks[j].atok.pc = "balanceOf"
                   /\ vaultTasks'[j].atok.bal = "BAD_DATA") =>
                   /\ vaultTasks'[j].atok.pc = "done"
                   /\ vaultTasks'[j].atok.balance = <<0>>
             /\ vaultTasks[j].usdc.bal = "BAD_DATA" =>
                   vaultTasks'[j].usdc = vaultTasks[j].usdc
             /\ vaultTasks[j].atok.bal = "BAD_DATA" =>
                   vaultTasks'[j].atok = vaultTasks[j].atok]_vars

C5_Witness ==
    /\ \E i \in ChainIdx :
          /\ chainTasks[i].bal = "BAD_DATA" /\ chainTasks[i].pc = "fulfilled"
          /\ chainTasks[i].result.aTokenBalance = <<0>>
    /\ \E j \in VaultIdx :
          /\ vaultTasks[j].usdc.bal = "BAD_DATA" /\ vaultTasks[j].usdc.pc = "done"
          /\ vaultTasks[j].atok.bal = "BAD_DATA" /\ vaultTasks[j].atok.pc = "done"
          /\ vaultTasks[j].pc = "fulfilled"
          /\ vaultTasks[j].result.usdcBalance = <<0>>
          /\ vaultTasks[j].result.aTokenBalance = <<0>>

\* C6: a balanceOf error other than BAD_DATA never becomes a balance: the
\* query fails, and the failure reaches the enclosing fetch and its caller.
C6_OtherErrorsPropagate ==
    /\ \A i \in ChainIdx :
          chainTasks[i].bal \notin {"none", "value", "BAD_DATA"} =>
              /\ chainTasks[i].pc = "rejected"
              /\ chainTasks[i].result = None
              /\ chainFetch.state = "rejected"
              /\ req.pc = "failed"
    /\ \A j \in VaultIdx :
          \A sub \in {vaultTasks[j].usdc, vaultTasks[j].atok} :
              sub.bal \notin {"none", "value", "BAD_DATA"} =>
                  /\ sub.pc = "failed"
                  /\ sub.balance = << >>
                  /\ vaultTasks[j].pc = "rejected"
                  /\ vaultTasks[j].result = None
                  /\ vaultFetch.state = "rejected"
                  /\ req.pc = "failed"

C6_Witness ==
    /\ \E i \in ChainIdx :
          chainTasks[i].bal = "NETWORK_ERROR" /\ chainTasks[i].pc = "rejected"
    /\ chainFetch.state = "rejected" /\ req.pc = "failed"

\* C7: when a per-chain query fails, the sibling queries then in flight are
\* left alone: the failing step changes no other task, afterwards a task
\* only ever moves by its own awaits, and each sibling reaches its own
\* completion or failure.
OwnSteps ==
    { <<"getATokenAddress", "balanceOf">>, <<"getATokenAddress", "rejected">>,
      <<"balanceOf", "getBlockNumber">>, <<"balanceOf", "rejected">>,
      <<"getBlockNumber", "fulfilled">>, <<"getBlockNumber", "rejected">> }

C7_SiblingsRunOn ==
    /\ [][\A i \in ChainIdx :
             (chainFetch'.state = "rejected" /\ chainTasks'[i] # chainTasks[i]) =>
                 /\ <<chainTasks[i].pc, chainTasks'[i].pc>> \in OwnSteps
                 /\ \A k \in ChainIdx \ {i} : chainTasks'[k] = chainTasks[k]]_vars
    /\ \A i \in ChainIdx :
          [](i \in req.inFlight => <>(i \in Settled(chainTasks)))

C7_Witness ==
    /\ chainFetch.state = "rejected"
    /\ \E i, k \in req.inFlight :
          /\ chainTasks[i].pc = "fulfilled" /\ chainTasks[i].result # None
          /\ chainTasks[k].pc = "rejected"

\* C10: for every list of vault balances, totalATokens is the sum of the
\* vaults' aToken balances, totalUSDC the sum of their USDC balances and
\* totalValue the sum of the two totals.
DecimalValue(str) ==
    LET RECURSIVE upTo(_)
        upTo(k) == IF k = 0 THEN 0 ELSE 10 * upTo(k - 1) + str[k]
    IN  upTo(Len(str))

SumOver(list, field) ==
    LET RECURSIVE partial(_)
        partial(k) == IF k = 0 THEN 0
                      ELSE partial(k - 1) + DecimalValue(list[k][field])
    IN  partial(Len(list))

C10_Totals ==
    req.pc = "aggregated" =>
        LET invested == SumOver(req.vaultBalances, "aTokenBalance")
            idle == SumOver(req.vaultBalances, "usdcBalance")
        IN  /\ DecimalValue(req.aggregated.totalATokens) = invested
            /\ DecimalValue(req.aggregated.totalUSDC) = idle
            /\ DecimalValue(req.aggregated.totalValue) = invested + idle
            /\ req.aggregated.totalATokens = toString(invested)
            /\ req.aggregated.totalUSDC = toString(idle)
            /\ req.aggregated.totalValue = toString(invested + idle)

C10_Witness ==
    /\ req.pc = "aggregated" /\ req.mode = "aggregate"
    /\ Len(req.vaultBalances) = MaxList
    /\ Len(req.chainBalances) > 0
    /\ DecimalValue(req.chainBalances[1].aTokenBalance) > 0
    /\ Len(req.aggregated.totalATokens) > 1
    /\ Len(req.aggregated.totalUSDC) > 1
    /\ DecimalValue(req.aggregated.totalValue) =
          DecimalValue(req.aggregated.totalATokens)
            + DecimalValue(req.aggregated.totalUSDC)

\* C30: the totals of aggregateBalances are those of the vault balances
\* alone: with any other list of chain balances and the same vault balances
\* totalATokens, totalUSDC and totalValue come out the same, and the two
\* lists given are returned as chainBalances and vaultBalances unchanged.
C30_TotalsIgnoreChainBalances ==
    req.pc = "aggregated" =>
        /\ req.aggregated.chainBalances = req.chainBalances
        /\ req.aggregated.vaultBalances = req.vaultBalances
        /\ \A other \in SeqsUpTo(ChainBalanceInputs, MaxList) :
              LET again == aggregateBalances(other, req.vaultBalances)
              IN  /\ again.totalATokens = req.aggregated.totalATokens
                  /\ again.totalUSDC = req.aggregated.totalUSDC
                  /\ again.totalValue = req.aggregated.totalValue
                  /\ again.chainBalances = other
                  /\ again.vaultBalances = req.vaultBalances

C30_Witness ==
    /\ req.pc = "aggregated" /\ req.mode = "aggregate"
    /\ Len(req.chainBalances) = MaxList
    /\ \A k \in DOMAIN req.chainBalances :
          req.chainBalances[k].aTokenBalance = toString(BalanceStep)
    /\ Len(req.vaultBalances) > 0
    /\ req.aggregated.totalATokens = toString(0)
    /\ req.aggregated.totalUSDC = toString(BalanceStep)
    /\ req.aggregated.chainBalances = req.chainBalances

====
